---- MODULE Spec2Model ----
(***************************************************************************)
(* A model of umlens: the class diagram (app/uml/model.py), the cycle      *)
(* finder (app/cycle/finder.py, app/cycle/search.py) and the pattern       *)
(* finder (app/pattern/finder.py, app/pattern/matcher.py).                 *)
(*                                                                         *)
(* Classes are identified by the integers 1..MaxClasses, relationships by  *)
(* the integers 1..n in the order they were created.  A Python set has no  *)
(* defined iteration order: every operation that iterates the incidence    *)
(* sets takes an enumeration order `ord` (a permutation of the             *)
(* relationship identifiers) that the action calling it chooses freely.    *)
(***************************************************************************)
EXTENDS Integers, Sequences, FiniteSets, TLC

VARIABLES
    elements,       \* Diagram._elements: the values, in insertion order
    relationships,  \* Diagram._relationships: class -> set of relationships
    hashOf,         \* str.__hash__ of each class identifier (fixed per process)
    cycles,         \* CycleFinder._cycles
    searches,       \* how many times _find_cycles ran its search loop
    everFirst,      \* what the first call ever of cycles()/cycle_count() saw
    cycFirst,       \* first result of cycles() since the diagram last changed
    cycLast,        \* latest result of cycles() since the diagram last changed
    cntLast,        \* latest result of cycle_count() since the last change
    calls,          \* how many queries the finders have answered
    args,           \* inputs of the pure functions under check
    ret,            \* their results
    patterns,       \* PatternFinder._patterns: <<class, list>> in key order
    made,           \* how many Pattern objects have been constructed
    matched,        \* the patterns the matcher has produced, in order
    patFirst,       \* what the first patterns() call yielded
    patAgain,       \* what the latest later patterns() call yielded
    idxFirst,       \* _patterns as the first patterns() call left it
    patRaised       \* whether a patterns() call has raised an exception

diagVars == <<elements, relationships, hashOf>>
cycVars == <<cycles, searches, everFirst, cycFirst, cycLast, cntLast, calls>>
pureVars == <<args, ret>>
patVars == <<patterns, made, matched, patFirst, patAgain, idxFirst,
            patRaised>>
vars == <<elements, relationships, hashOf, cycles, searches, everFirst,
          cycFirst, cycLast, cntLast, calls, args, ret, patVars>>

(***************************************************************************)
(* Bounds.                                                                 *)
(***************************************************************************)
MaxClasses == 3
MaxRels == 3
MaxCalls == 2
MaxStereotypes == 2
HashBits == 3
MaxMetric == 4
MaxPackages == 1
MaxPatterns == 3
MaxWeight == 1

ClassIds == 1..MaxClasses
HashValues == 0..(2^HashBits - 1)
\* An observation not made yet is None; one made is Some(x), read back as x[1].
None == <<>>
Some(x) == <<x>>

(***************************************************************************)
(* Generic helpers.                                                        *)
(***************************************************************************)
Range(s) == {s[i] : i \in 1..Len(s)}

RECURSIVE Perms(_)
Perms(S) ==
    IF S = {} THEN {<<>>}
    ELSE UNION {{<<x>> \o p : p \in Perms(S \ {x})} : x \in S}

RECURSIVE BitXor(_, _)
BitXor(a, b) ==
    IF a = 0 THEN b
    ELSE IF b = 0 THEN a
    ELSE (((a % 2) + (b % 2)) % 2) + (2 * BitXor(a \div 2, b \div 2))

RECURSIVE BitAnd(_, _)
BitAnd(a, b) ==
    IF a = 0 \/ b = 0 THEN 0
    ELSE ((a % 2) * (b % 2)) + (2 * BitAnd(a \div 2, b \div 2))

(***************************************************************************)
(* app/uml/model.py: elements.                                             *)
(***************************************************************************)
RelTypes == {"Association", "Dependency", "Generalization", "Realization"}

Class(c, interface) ==
    [kind |-> "Class", id |-> c, is_interface |-> interface]

\* Method: its name, a list of characters, and its return_type, None or the
\* class it names.
Method(name, return_type) == [name |-> name, return_type |-> return_type]

\* A Class after Parser._populate_class has appended its methods.
ClassWithMethods(c, interface, methods) ==
    [kind |-> "Class", id |-> c, is_interface |-> interface,
     methods |-> methods]

Relationship(n, rel_type, from_cls, to_cls, stereotypes) ==
    [kind |-> "Relationship", id |-> n, rel_type |-> rel_type,
     from_cls |-> from_cls, to_cls |-> to_cls, stereotypes |-> stereotypes]

\* AggType and Multiplicity: enum.Flag classes, a member written as its value.
AggType == [NONE |-> 0, SHARED |-> 1, COMPOSITED |-> 2, ANY |-> 3]

Multiplicity ==
    [ZERO |-> 1, ONE |-> 2, N |-> 4, STAR |-> 8, PLUS |-> 16,
     AT_MOST_ONE |-> 3, MULTIPLE |-> 28, ANY |-> 31]

\* member in flags, as enum.Flag.__contains__ computes it: the bits of the
\* member are all set in flags.
FlagIn(member, flags) == BitAnd(member, flags) = member

\* Association.__init__
Association(n, agg_type, from_cls, to_cls, from_mult, to_mult) ==
    [kind |-> "Relationship", id |-> n, rel_type |-> "Association",
     from_cls |-> from_cls, to_cls |-> to_cls, stereotypes |-> <<>>,
     aggregation_type |-> agg_type, from_mult |-> from_mult,
     to_mult |-> to_mult]

\* Stereotype._creational_names; a stereotype is written as its name.
CreationalNames == {"create", "instantiate"}

\* Stereotype.is_creational(): a method, not a property.
StereotypeIsCreational(s) == s \in CreationalNames

\* The truth value of the attribute s.is_creational read without calling
\* it: a bound method object, which is true whatever s is.
BoundMethodTruth(s) == TRUE

\* Relationship.is_creational
IsCreational(r) ==
    /\ r.rel_type = "Dependency"
    /\ \E i \in 1..Len(r.stereotypes) : BoundMethodTruth(r.stereotypes[i])

\* Element.__hash__: the hash of the identifier.
ElementHash(c) == hashOf[c]

\* Diagram.classes(): the Class elements, in insertion order.
IsClass(e) == e.kind = "Class"
classes == SelectSeq(elements, IsClass)

ClassesOf(els) == {e.id : e \in {x \in Range(els) : x.kind = "Class"}}
RelsOf(els) == {x \in Range(els) : x.kind = "Relationship"}

\* Diagram.add_element: a dict store keyed by identifier; a known key keeps
\* its place and gets the new value.
AddElement(els, e) ==
    IF \E i \in 1..Len(els) : els[i].kind = e.kind /\ els[i].id = e.id
    THEN [i \in 1..Len(els) |->
            IF els[i].kind = e.kind /\ els[i].id = e.id THEN e ELSE els[i]]
    ELSE Append(els, e)

\* Diagram.add_relationship, the index part: the relationship joins the
\* incidence set of its from_cls and then of its to_cls.
IndexUnder(idx, key, r) == [idx EXCEPT ![key] = idx[key] \cup {r}]

\* add_relationship indexing under from_cls alone.
AddRelationshipIndexFromOnly(idx, r) == IndexUnder(idx, r.from_cls, r)

AddRelationshipIndex(idx, r) ==
    IndexUnder(IndexUnder(idx, r.from_cls, r), r.to_cls, r)

\* The incidence set of cls iterated in the enumeration order ord.
RECURSIVE Enumerate(_, _)
Enumerate(S, ord) ==
    IF ord = <<>> THEN <<>>
    ELSE LET here == {r \in S : r.id = Head(ord)}
         IN (IF here = {} THEN <<>> ELSE <<CHOOSE r \in here : TRUE>>)
                \o Enumerate(S, Tail(ord))

KeepKind(rs, kind) ==
    LET Ok(r) == r.rel_type \in kind IN SelectSeq(rs, Ok)

KeepRole(rs, cls, role) ==
    LET Lhs(r) == r.from_cls = cls
        Rhs(r) == r.to_cls = cls
    IN IF role = "LHS" THEN SelectSeq(rs, Lhs)
       ELSE IF role = "RHS" THEN SelectSeq(rs, Rhs)
       ELSE rs

\* Diagram.relationships(cls, kind, role): kind = {} stands for kind=None.
Relationships(cls, kind, role, ord) ==
    LET all == Enumerate(relationships[cls], ord)
        byKind == IF kind # {} THEN KeepKind(all, kind) ELSE all
    IN KeepRole(byKind, cls, role)

\* Diagram.related_classes: the other endpoint of each relationship.
OtherEnd(r, cls) == IF r.from_cls = cls THEN r.to_cls ELSE r.from_cls

RelatedClasses(cls, kind, role, ord) ==
    LET rs == Relationships(cls, kind, role, ord)
    IN [i \in 1..Len(rs) |-> OtherEnd(rs[i], cls)]

(***************************************************************************)
(* app/cycle/search.py: a Node is written as its path_to_root(), the       *)
(* classes from the root down to the node's own class.                     *)
(***************************************************************************)
NodeCls(node) == node[Len(node)]

\* Node.children following the relationships that point at the class.
ChildrenIncoming(node, ord) ==
    LET cs == RelatedClasses(NodeCls(node), {}, "RHS", ord)
    IN [i \in 1..Len(cs) |-> Append(node, cs[i])]

\* Node.children
Children(node, ord) ==
    LET cs == RelatedClasses(NodeCls(node), {}, "LHS", ord)
    IN [i \in 1..Len(cs) |-> Append(node, cs[i])]

\* Node.search: the while loop.
RECURSIVE SearchLoop(_, _, _, _, _)
SearchLoop(fringe, closed, solutions, goal, ord) ==
    IF fringe = <<>> THEN solutions
    ELSE LET node == Head(fringe)
             sols == IF NodeCls(node) = goal
                     THEN Append(solutions, node) ELSE solutions
         IN IF NodeCls(node) \notin closed
            THEN SearchLoop(Tail(fringe) \o Children(node, ord),
                            closed \cup {NodeCls(node)}, sols, goal, ord)
            ELSE SearchLoop(Tail(fringe), closed, sols, goal, ord)

Search(root, goal, ord) == SearchLoop(<<<<root>>>>, {}, <<>>, goal, ord)

(***************************************************************************)
(* app/cycle/finder.py                                                     *)
(***************************************************************************)
\* Two cycles compared as plain lists.
CycleEqAsLists(self, other) == self = other

\* Cycle.__eq__
RECURSIVE MatchFrom(_, _, _, _)
MatchFrom(other, new_list, x, z) ==
    \* the inner for loop: z counts the leading positions that agree
    IF z = Len(other) THEN z
    ELSE IF other[z + 1] = new_list[x + z + 1]
         THEN MatchFrom(other, new_list, x, z + 1)
         ELSE z

CycleEq(self, other) ==
    IF Len(self) # Len(other) THEN FALSE
    ELSE IF Len(self) = 0 THEN TRUE
    ELSE \E x \in 0..(Len(self) - 1) :
            MatchFrom(other, self \o self, x, 0) = Len(self)

\* Cycle.__hash__
RECURSIVE XorFold(_, _)
XorFold(hval, cs) ==
    IF cs = <<>> THEN hval
    ELSE XorFold(BitXor(hval, ElementHash(Head(cs))), Tail(cs))

\* A hash that folds with a shift, and so depends on where the cycle starts.
RECURSIVE ShiftFold(_, _)
ShiftFold(hval, cs) ==
    IF cs = <<>> THEN hval
    ELSE ShiftFold(BitXor((2 * hval) % (2^HashBits), ElementHash(Head(cs))),
                   Tail(cs))

CycleHashOrderSensitive(cs) == ShiftFold(0, cs)

CycleHash(cs) == XorFold(0, cs)

\* set.add on a set of Cycle objects: a member with the same hash that
\* compares equal keeps the new one out.
SetAdd(S, c) ==
    IF \E d \in S : CycleHash(d) = CycleHash(c) /\ CycleEq(d, c)
    THEN S ELSE S \cup {c}

\* path = solution.path_to_root(); path.pop()
Popped(path) == SubSeq(path, 1, Len(path) - 1)

RECURSIVE AddSolutions(_, _)
AddSolutions(S, sols) ==
    IF sols = <<>> THEN S
    ELSE LET path == Popped(Head(sols))
         IN AddSolutions(IF Len(path) > 0 THEN SetAdd(S, path) ELSE S,
                         Tail(sols))

RECURSIVE SearchAll(_, _, _)
SearchAll(S, roots, ord) ==
    IF roots = <<>> THEN S
    ELSE SearchAll(AddSolutions(S, Search(Head(roots).id, Head(roots).id, ord)),
                   Tail(roots), ord)

\* _find_cycles keeping only the cycles of two classes or more.
FindCyclesOfTwoOrMore(cyc, ord) ==
    IF cyc # {} THEN cyc
    ELSE {c \in SearchAll(cyc, classes, ord) : Len(c) > 1}

\* CycleFinder._find_cycles: the value of _cycles after the call.
FindCycles(cyc, ord) ==
    IF cyc # {} THEN cyc ELSE SearchAll(cyc, classes, ord)

(***************************************************************************)
(* app/uml/model.py: the queries the matchers make.                        *)
(***************************************************************************)
\* Class.is_interface of the class with identifier c.
IsInterface(c) ==
    \E e \in Range(elements) : e.kind = "Class" /\ e.id = c /\ e.is_interface

\* The match predicates the matchers pass: None, or one of the lambdas of
\* matcher.py, named after the matcher that passes it where the body is long.
MatchHolds(match, r) ==
    \/ match = "None"
    \/ match = "r.is_creational" /\ IsCreational(r)
    \/ match = "not r.is_creational" /\ ~IsCreational(r)
    \/ match = "r.is_creational and not r.to_cls.is_interface"
          /\ IsCreational(r)
          /\ ~\E e \in Range(elements) :
                  e.kind = "Class" /\ e.id = r.to_cls /\ e.is_interface
    \/ match = "a.aggregation_type in AggType.ANY"
          /\ FlagIn(r.aggregation_type, AggType.ANY)
    \/ match = "CompositeMatcher"
          /\ FlagIn(r.aggregation_type, AggType.ANY)
          /\ r.from_mult = Multiplicity.ONE
          /\ FlagIn(r.to_mult, Multiplicity.MULTIPLE)
    \/ match = "DecoratorMatcher"
          /\ FlagIn(r.aggregation_type, AggType.ANY)
          /\ FlagIn(r.from_mult, Multiplicity.ONE)
          /\ r.to_mult = Multiplicity.ONE

\* Diagram.related_classes with a match predicate.
RelatedClassesMatching(cls, kind, role, match, ord) ==
    LET Ok(r) == MatchHolds(match, r)
        rs == SelectSeq(Relationships(cls, kind, role, ord), Ok)
    IN [i \in 1..Len(rs) |-> OtherEnd(rs[i], cls)]

\* Diagram.associated_classes(cls, role) with match=None
AssociatedClasses(cls, role, ord) ==
    RelatedClasses(cls, {"Association"}, role, ord)

\* Diagram.associated_classes(cls, role, match)
AssociatedClassesMatching(cls, role, match, ord) ==
    RelatedClassesMatching(cls, {"Association"}, role, match, ord)

\* Diagram.sub_classes
SubClasses(cls, ord) == RelatedClasses(cls, {"Generalization"}, "LHS", ord)

\* Diagram.super_classes
SuperClasses(cls, ord) == RelatedClasses(cls, {"Generalization"}, "RHS", ord)

\* Diagram.has_sub_classes, Diagram.has_super_classes
HasSubClasses(cls, ord) == SubClasses(cls, ord) # <<>>
HasSuperClasses(cls, ord) == SuperClasses(cls, ord) # <<>>

\* Diagram.realizations
Realizations(cls, ord) ==
    IF ~IsInterface(cls) THEN <<>>
    ELSE RelatedClasses(cls, {"Realization"}, "LHS", ord)

\* Diagram.interfaces
Interfaces(cls, ord) == RelatedClasses(cls, {"Realization"}, "RHS", ord)

\* Diagram.methods(cls) read to its end.  The classes of this model declare
\* no method, so nothing is yielded; what is left is the recursion over
\* interfaces and super_classes, which keeps no record of the classes it has
\* entered.  A call chain longer than the number of classes has entered one
\* class twice and so never ends: Python raises RecursionError.
RECURSIVE MethodsOverflows(_, _, _)
MethodsOverflows(cls, depth, ord) ==
    IF depth > Len(classes) THEN TRUE
    ELSE \E c \in Range(Interfaces(cls, ord) \o SuperClasses(cls, ord)) :
            MethodsOverflows(c, depth + 1, ord)

MethodsRaises(cls, ord) == MethodsOverflows(cls, 0, ord)

\* cls.methods: a class written without the field declares none.
ClassMethods(cls) ==
    LET e == CHOOSE x \in Range(elements) : x.kind = "Class" /\ x.id = cls
    IN IF "methods" \in DOMAIN e THEN e.methods ELSE <<>>

\* Diagram.methods(cls) where it does not raise: the methods of cls, then
\* those of its interfaces and of its super_classes, each followed by its
\* own, duplicates kept.
RECURSIVE MethodsFrom(_, _, _)
RECURSIVE MethodsOfAll(_, _, _)
MethodsFrom(cls, depth, ord) ==
    IF depth > Len(classes) THEN <<>>
    ELSE ClassMethods(cls)
            \o MethodsOfAll(Interfaces(cls, ord) \o SuperClasses(cls, ord),
                            depth + 1, ord)

MethodsOfAll(cs, depth, ord) ==
    IF cs = <<>> THEN <<>>
    ELSE MethodsFrom(Head(cs), depth, ord)
            \o MethodsOfAll(Tail(cs), depth, ord)

Methods(cls, ord) == MethodsFrom(cls, 0, ord)

\* Diagram.is_realization
IsRealization(realization, interface, ord) ==
    /\ IsInterface(interface)
    /\ realization \in Range(Realizations(interface, ord))

\* Diagram.inheritance_depth: the depth, or RecursionError raised.
RECURSIVE InheritanceDepthFrom(_, _, _, _)
InheritanceDepthFrom(cls, start_depth, supers, ord) ==
    IF start_depth > Len(classes) THEN [raised |-> TRUE, depth |-> 0]
    ELSE IF supers = <<>> THEN [raised |-> FALSE, depth |-> start_depth]
    ELSE LET c == Head(supers)
             up == InheritanceDepthFrom(c, start_depth + 1,
                                        SuperClasses(c, ord), ord)
             rest == InheritanceDepthFrom(cls, start_depth, Tail(supers), ord)
         IN IF up.raised \/ rest.raised THEN [raised |-> TRUE, depth |-> 0]
            ELSE [raised |-> FALSE,
                  depth |-> IF up.depth > rest.depth THEN up.depth
                            ELSE rest.depth]

\* inheritance_depth counting the class itself as the first level.
InheritanceDepthCountingSelf(cls, ord) ==
    LET d == InheritanceDepthFrom(cls, 0, SuperClasses(cls, ord), ord)
    IN [d EXCEPT !.depth = @ + 1]

InheritanceDepth(cls, ord) ==
    InheritanceDepthFrom(cls, 0, SuperClasses(cls, ord), ord)

\* Diagram.dependencies
Dependencies(cls, match, ord) ==
    RelatedClassesMatching(cls, {"Dependency"}, "LHS", match, ord)

(***************************************************************************)
(* patternmatcher/pattern.py: Pattern and its subclasses.  Pattern defines *)
(* neither __eq__ nor __hash__, so a pattern equals only itself: oid is    *)
(* the identity of the object, the rank of its construction.               *)
(***************************************************************************)
Adapter(oid, target, adapter, adaptee) ==
    [name |-> "Adapter", oid |-> oid, target |-> target,
     adapter |-> adapter, adaptee |-> adaptee]

Bridge(oid, abstraction, implementor, refined_abstractions, concrete_implementors) ==
    [name |-> "Bridge", oid |-> oid, abstraction |-> abstraction,
     implementor |-> implementor,
     refined_abstractions |-> refined_abstractions,
     concrete_implementors |-> concrete_implementors]

Composite(oid, composite, component, leaves) ==
    [name |-> "Composite", oid |-> oid, composite |-> composite,
     component |-> component, leaves |-> leaves]

Decorator(oid, decorator, component, concrete_components, concrete_decorators) ==
    [name |-> "Decorator", oid |-> oid, decorator |-> decorator,
     component |-> component, concrete_components |-> concrete_components,
     concrete_decorators |-> concrete_decorators]

FactoryMethod(oid, factory, method, product) ==
    [name |-> "FactoryMethod", oid |-> oid, factory |-> factory,
     method |-> method, product |-> product]

Facade(oid, facade, cs) ==
    [name |-> "Facade", oid |-> oid, facade |-> facade, classes |-> cs]

Proxy(oid, proxy, subject, real_subject) ==
    [name |-> "Proxy", oid |-> oid, proxy |-> proxy, subject |-> subject,
     real_subject |-> real_subject]

\* Pattern.involved_classes: the classes of the fields, in field order.
InvolvedClasses(p) ==
    IF p.name = "Adapter" THEN <<p.target, p.adapter, p.adaptee>>
    ELSE IF p.name = "Proxy" THEN <<p.proxy, p.subject, p.real_subject>>
    ELSE IF p.name = "FactoryMethod" THEN <<p.factory, p.product>>
    ELSE IF p.name = "Bridge"
    THEN <<p.abstraction, p.implementor>> \o p.refined_abstractions
             \o p.concrete_implementors
    ELSE IF p.name = "Composite"
    THEN <<p.composite, p.component>> \o p.leaves
    ELSE IF p.name = "Decorator"
    THEN <<p.decorator, p.component>> \o p.concrete_components
             \o p.concrete_decorators
    ELSE <<p.facade>> \o p.classes

\* p == q and hash(p) == hash(q) as object defines them.
PatternEq(p, q) == p.oid = q.oid

(***************************************************************************)
(* app/pattern/matcher.py.  A matcher is given the number n of patterns    *)
(* constructed so far and returns the patterns it yields, in order.        *)
(***************************************************************************)
\* _all_unique
AllUnique(s) == \A i, j \in 1..Len(s) : i # j => s[i] # s[j]

\* AdapterMatcher.match: the loop over the adapters.
RECURSIVE AdapterMatchLoop(_, _, _, _)
AdapterMatchLoop(cls, adapters, n, ord) ==
    IF adapters = <<>> THEN <<>>
    ELSE LET adapter == Head(adapters)
             adaptees == Dependencies(adapter, "not r.is_creational", ord)
                             \o SuperClasses(adapter, ord)
         IN IF Len(adaptees) = 1 /\ AllUnique(<<cls, adapter, adaptees[1]>>)
            THEN <<Adapter(n + 1, cls, adapter, adaptees[1])>>
                     \o AdapterMatchLoop(cls, Tail(adapters), n + 1, ord)
            ELSE AdapterMatchLoop(cls, Tail(adapters), n, ord)

\* AdapterMatcher.match
AdapterMatch(cls, n, ord) ==
    IF ~IsInterface(cls) THEN <<>>
    ELSE AdapterMatchLoop(cls, Realizations(cls, ord), n, ord)

\* The members of s that are, or are not, members of t, in the order of s.
Within(s, t) == LET In(x) == x \in Range(t) IN SelectSeq(s, In)
Without(s, t) == LET Out(x) == x \notin Range(t) IN SelectSeq(s, Out)

\* BridgeMatcher.match, from the implementor on.
BridgeEmit(cls, impl, r_abs, concr, n) ==
    IF AllUnique(<<cls, impl>> \o r_abs \o concr)
    THEN <<Bridge(n + 1, cls, impl, r_abs, concr)>>
    ELSE <<>>

BridgeWith(cls, r_abs, impl, n, ord) ==
    IF r_abs = <<>> \/ Len(impl) # 1 THEN <<>>
    ELSE BridgeEmit(cls, impl[1], r_abs,
                    SubClasses(impl[1], ord) \o Realizations(impl[1], ord),
                    n)

\* BridgeMatcher.match
BridgeMatch(cls, n, ord) ==
    IF IsInterface(cls) THEN <<>>
    ELSE BridgeWith(cls, SubClasses(cls, ord),
                    AssociatedClassesMatching(
                        cls, "LHS", "a.aggregation_type in AggType.ANY", ord),
                    n, ord)

\* The candidates CompositeMatcher, DecoratorMatcher and ProxyMatcher start
\* from.
Candidates(cls, ord) ==
    IF IsInterface(cls) THEN Realizations(cls, ord) ELSE SubClasses(cls, ord)

\* CompositeMatcher.match: the generator over the composites.
RECURSIVE CompositeEmit(_, _, _, _)
CompositeEmit(cls, composites, leaves, n) ==
    IF composites = <<>> THEN <<>>
    ELSE IF AllUnique(<<Head(composites), cls>> \o leaves)
    THEN <<Composite(n + 1, Head(composites), cls, leaves)>>
             \o CompositeEmit(cls, Tail(composites), leaves, n + 1)
    ELSE CompositeEmit(cls, Tail(composites), leaves, n)

CompositeWith(cls, leaves, composites, n) ==
    CompositeEmit(cls, composites, Without(leaves, composites), n)

\* CompositeMatcher.match
CompositeMatch(cls, n, ord) ==
    IF Len(Candidates(cls, ord)) <= 1 THEN <<>>
    ELSE CompositeWith(cls, Candidates(cls, ord),
                       Within(AssociatedClassesMatching(
                                  cls, "RHS", "CompositeMatcher", ord),
                              Candidates(cls, ord)),
                       n)

\* DecoratorMatcher.match: the loop over the decorators.
RECURSIVE DecoratorEmit(_, _, _, _, _)
DecoratorEmit(cls, decorators, cc, n, ord) ==
    IF decorators = <<>> THEN <<>>
    ELSE IF AllUnique(<<Head(decorators), cls>> \o cc
                          \o SubClasses(Head(decorators), ord))
    THEN <<Decorator(n + 1, Head(decorators), cls, cc,
                     SubClasses(Head(decorators), ord))>>
             \o DecoratorEmit(cls, Tail(decorators), cc, n + 1, ord)
    ELSE DecoratorEmit(cls, Tail(decorators), cc, n, ord)

DecoratorWith(cls, cc, decorators, n, ord) ==
    DecoratorEmit(cls, decorators, Without(cc, decorators), n, ord)

\* The associated classes that are concrete components with subclasses.
DecoratorsAmong(ds, cc, ord) ==
    LET Ok(d) == d \in Range(cc) /\ HasSubClasses(d, ord)
    IN SelectSeq(ds, Ok)

\* DecoratorMatcher.match
DecoratorMatch(cls, n, ord) ==
    IF Len(Candidates(cls, ord)) <= 1 THEN <<>>
    ELSE DecoratorWith(cls, Candidates(cls, ord),
                       DecoratorsAmong(AssociatedClassesMatching(
                                           cls, "RHS", "DecoratorMatcher", ord),
                                       Candidates(cls, ord), ord),
                       n, ord)

\* FacadeMatcher emitting from two dependencies on.
FacadeMatchFromTwo(cls, n, ord) ==
    LET deps == Dependencies(cls, "None", ord)
    IN IF Len(deps) >= 2 THEN <<Facade(n + 1, cls, deps)>> ELSE <<>>

\* FacadeMatcher.match
FacadeMatch(cls, n, ord) ==
    LET deps == Dependencies(cls, "None", ord)
    IN IF Len(deps) > 2 THEN <<Facade(n + 1, cls, deps)>> ELSE <<>>

\* str.lower of one character.
UpperCase ==
    <<"A", "B", "C", "D", "E", "F", "G", "H", "I", "J", "K", "L", "M", "N",
      "O", "P", "Q", "R", "S", "T", "U", "V", "W", "X", "Y", "Z">>
LowerCase ==
    <<"a", "b", "c", "d", "e", "f", "g", "h", "i", "j", "k", "l", "m", "n",
      "o", "p", "q", "r", "s", "t", "u", "v", "w", "x", "y", "z">>

Lower(ch) ==
    IF \E i \in 1..Len(UpperCase) : UpperCase[i] = ch
    THEN LowerCase[CHOOSE i \in 1..Len(UpperCase) : UpperCase[i] = ch]
    ELSE ch

\* FactoryMethodMatcher._regex: the alternatives, as lists of characters.
FactoryPrefixes ==
    {<<"a", "l", "l", "o", "c">>, <<"b", "u", "i", "l", "d">>,
     <<"c", "o", "n", "s", "t", "r", "u", "c", "t">>,
     <<"c", "r", "e", "a", "t", "e">>,
     <<"i", "n", "s", "t", "a", "n", "t", "i", "a", "t", "e">>,
     <<"n", "e", "w">>}

\* _regex.match(name): one of the alternatives is at the start of the name,
\* letter case ignored.
RegexMatch(name) ==
    \E w \in FactoryPrefixes :
        /\ Len(name) >= Len(w)
        /\ \A i \in 1..Len(w) : Lower(name[i]) = w[i]

\* The test a method passes to be a factory method.
IsFactoryMethod(m) == m.return_type # None /\ RegexMatch(m.name)

\* next((c for c in created if dg.is_realization(c, ret_type)), ret_type)
RECURSIVE FirstRealization(_, _, _)
FirstRealization(created, ret_type, ord) ==
    IF created = <<>> THEN ret_type
    ELSE IF IsRealization(Head(created), ret_type, ord) THEN Head(created)
    ELSE FirstRealization(Tail(created), ret_type, ord)

\* The product of the factory method m.
Product(m, created, ord) ==
    IF IsInterface(m.return_type[1])
    THEN FirstRealization(created, m.return_type[1], ord)
    ELSE m.return_type[1]

\* FactoryMethodMatcher.match: the loop over the factory methods.
FactoryMethodEmit(cls, methods, created, n, ord) ==
    [i \in 1..Len(methods) |->
        FactoryMethod(n + i, cls, methods[i],
                      Product(methods[i], created, ord))]

\* FactoryMethodMatcher.match.  It raises when reading dg.methods(cls)
\* does; the classes of a hierarchy cycle declare no method in the diagrams
\* here, so nothing is yielded before the exception.
FactoryMethodMatch(cls, n, ord) ==
    IF MethodsRaises(cls, ord) THEN [out |-> <<>>, raised |-> TRUE]
    ELSE [out |-> FactoryMethodEmit(
                      cls, SelectSeq(Methods(cls, ord), IsFactoryMethod),
                      Dependencies(
                          cls,
                          "r.is_creational and not r.to_cls.is_interface",
                          ord),
                      n, ord),
          raised |-> FALSE]

\* AbstractFactoryMatcher.match: the set of products is built from
\* FactoryMethodMatcher.match, and without a product nothing is yielded.
\* The diagrams it is run on declare no method.
AbstractFactoryMatch(cls, n, ord) ==
    IF ~IsInterface(cls) THEN [out |-> <<>>, raised |-> FALSE]
    ELSE LET fm == FactoryMethodMatch(cls, n, ord)
         IN [out |-> <<>>, raised |-> fm.raised]

\* ProxyMatcher.match: the loop over the proxies.
RECURSIVE ProxyMatchLoop(_, _, _, _, _)
ProxyMatchLoop(cls, proxies, rest, n, ord) ==
    IF rest = <<>> THEN <<>>
    ELSE LET p == Head(rest)
             deps == Dependencies(p, "None", ord)
             hit == /\ AssociatedClasses(p, "LHS", ord) = <<>>
                    /\ Len(deps) = 1
                    /\ deps[1] \in Range(proxies)
                    /\ AllUnique(<<p, cls, deps[1]>>)
         IN IF hit
            THEN <<Proxy(n + 1, p, cls, deps[1])>>
                     \o ProxyMatchLoop(cls, proxies, Tail(rest), n + 1, ord)
            ELSE ProxyMatchLoop(cls, proxies, Tail(rest), n, ord)

\* ProxyMatcher.match
ProxyMatch(cls, n, ord) ==
    LET proxies == IF IsInterface(cls) THEN Realizations(cls, ord)
                   ELSE SubClasses(cls, ord)
    IN IF Len(proxies) <= 1 THEN <<>>
       ELSE ProxyMatchLoop(cls, proxies, proxies, n, ord)

\* Matcher.all(): the matchers in registration order.
Matchers ==
    <<"AbstractFactoryMatcher", "AdapterMatcher", "BridgeMatcher",
      "CompositeMatcher", "DecoratorMatcher", "FacadeMatcher",
      "FactoryMethodMatcher", "PrototypeMatcher", "ProxyMatcher",
      "SingletonMatcher">>

\* m.match(dg, cls): the patterns yielded, and whether the matcher raised.
\* Prototype and Singleton emit only for a class with a copy method or a
\* class-scoped attribute; the classes here have none.
MatchWith(m, cls, n, ord) ==
    IF m = "AbstractFactoryMatcher" THEN AbstractFactoryMatch(cls, n, ord)
    ELSE IF m = "FactoryMethodMatcher" THEN FactoryMethodMatch(cls, n, ord)
    ELSE [out |-> IF m = "AdapterMatcher" THEN AdapterMatch(cls, n, ord)
                  ELSE IF m = "FacadeMatcher" THEN FacadeMatch(cls, n, ord)
                  ELSE IF m = "ProxyMatcher" THEN ProxyMatch(cls, n, ord)
                  ELSE IF m = "BridgeMatcher" THEN BridgeMatch(cls, n, ord)
                  ELSE IF m = "CompositeMatcher"
                  THEN CompositeMatch(cls, n, ord)
                  ELSE IF m = "DecoratorMatcher"
                  THEN DecoratorMatch(cls, n, ord)
                  ELSE <<>>,
          raised |-> FALSE]

\* MultiMatcher.match: the matchers ms still to run for cls, after the
\* patterns out were yielded; it ends at the first matcher that raises.
RECURSIVE MultiMatchLoop(_, _, _, _, _)
MultiMatchNext(here, ms, cls, n, ord, out) ==
    IF here.raised THEN [out |-> out \o here.out, raised |-> TRUE]
    ELSE MultiMatchLoop(ms, cls, n, ord, out \o here.out)

MultiMatchLoop(ms, cls, n, ord, out) ==
    IF ms = <<>> THEN [out |-> out, raised |-> FALSE]
    ELSE MultiMatchNext(MatchWith(Head(ms), cls, n + Len(out), ord),
                        Tail(ms), cls, n, ord, out)

\* MultiMatcher.match
MultiMatch(cls, n, ord) == MultiMatchLoop(Matchers, cls, n, ord, <<>>)

(***************************************************************************)
(* app/pattern/finder.py.  The dict _patterns is the sequence of its       *)
(* entries [key, val] in insertion order.                                  *)
(***************************************************************************)
HasKey(idx, c) == \E i \in 1..Len(idx) : idx[i].key = c

\* PatternFinder._find_pattern: one round of the loop.
IndexPattern(idx, c, p) ==
    IF HasKey(idx, c)
    THEN [i \in 1..Len(idx) |->
            IF idx[i].key = c THEN [idx[i] EXCEPT !.val = Append(@, p)]
            ELSE idx[i]]
    ELSE Append(idx, [key |-> c, val |-> <<p>>])

RECURSIVE FindPatternLoop(_, _, _)
FindPatternLoop(idx, cs, p) ==
    IF cs = <<>> THEN idx
    ELSE FindPatternLoop(IndexPattern(idx, Head(cs), p), Tail(cs), p)

\* PatternFinder._find_pattern
FindPattern(idx, p) == FindPatternLoop(idx, InvolvedClasses(p), p)

\* The public methods app/uml/model.py defines on Diagram; get_classes is defined
\* by src/patternmatcher/classdiagram.py on its own diagram class only.
DiagramMethods ==
    {"package", "cls", "datatype", "stereotype", "relationship", "classes",
     "packages", "relationships", "associations", "related_classes",
     "associated_classes", "sub_classes", "super_classes", "leaf_classes",
     "ancestors", "realizations", "interfaces", "dependencies",
     "dependants", "is_sub_class", "is_realization", "has_sub_classes",
     "has_super_classes", "has_realizations", "inheritance_depth",
     "methods", "add_element", "add_relationship"}

\* self._diagram.get_classes(): AttributeError, Diagram having no such
\* attribute.
GetClassesRaises == "get_classes" \notin DiagramMethods

\* PatternFinder._find_patterns: _patterns after the call, the patterns the
\* matcher produced during it, and whether it raised.  A filled index is
\* returned at once; on an empty one the loop header raises AttributeError
\* before any class is matched, so that _patterns stays empty.
FindPatterns(idx, n, ord) ==
    IF idx # <<>> THEN [idx |-> idx, out |-> <<>>, raised |-> FALSE]
    ELSE [idx |-> idx, out |-> <<>>, raised |-> GetClassesRaises]

\* PatternFinder.patterns: the inner loop; returned holds what was yielded.
RECURSIVE YieldList(_, _, _)
YieldList(ps, kind, yielded) ==
    IF ps = <<>> THEN yielded
    ELSE LET p == Head(ps)
             fresh == ~\E i \in 1..Len(yielded) : PatternEq(yielded[i], p)
             pass == (kind = None \/ p.name = kind[1]) /\ fresh
         IN YieldList(Tail(ps), kind,
                      IF pass THEN Append(yielded, p) ELSE yielded)

RECURSIVE YieldKeys(_, _, _)
YieldKeys(entries, kind, yielded) ==
    IF entries = <<>> THEN yielded
    ELSE YieldKeys(Tail(entries), kind,
                   YieldList(Head(entries).val, kind, yielded))

\* PatternFinder.patterns(cls, kind) once _find_patterns has run: what it
\* yields, and whether self._patterns[cls] raised KeyError.
Patterns(idx, cls, kind) ==
    LET OfCls(e) == e.key = cls[1]
    IN IF cls = None
       THEN [raised |-> FALSE, yielded |-> YieldKeys(idx, kind, <<>>)]
       ELSE IF HasKey(idx, cls[1])
       THEN [raised |-> FALSE,
             yielded |-> YieldKeys(SelectSeq(idx, OfCls), kind, <<>>)]
       ELSE [raised |-> TRUE, yielded |-> <<>>]

(***************************************************************************)
(* The diagram under construction and the cycle finder answering queries.  *)
(***************************************************************************)
\* The relationship kinds and stereotype lists the diagrams of Spec draw from.
CycleKinds == {"Dependency", "Generalization"}

\* The hash seed of the run: identifiers hash apart, and the exclusive-or of
\* two of them can still meet the hash of a third.
HashSeeds == {[c \in ClassIds |-> c % (2^HashBits)]}

NoArgs == <<>>

\* PatternFinder.__init__
InitPatternFinder ==
    /\ patterns = <<>>
    /\ made = 0
    /\ matched = <<>>
    /\ patFirst = None
    /\ patAgain = None
    /\ idxFirst = None
    /\ patRaised = FALSE

Init ==
    /\ elements = <<>>
    /\ relationships = [c \in ClassIds |-> {}]
    /\ hashOf \in HashSeeds
    /\ cycles = {}
    /\ searches = 0
    /\ everFirst = None
    /\ cycFirst = None
    /\ cycLast = None
    /\ cntLast = None
    /\ calls = 0
    /\ args = NoArgs
    /\ ret = NoArgs
    /\ InitPatternFinder

\* What a change of the diagram does to the observations of the finder.
Changed ==
    /\ cycFirst' = None
    /\ cycLast' = None
    /\ cntLast' = None

\* Parser._create_class: the next class of the document joins the diagram.
\* Parser.parse_document creates every class before the first relationship.
CreateClass ==
    /\ Len(classes) < MaxClasses
    /\ RelsOf(elements) = {}
    /\ elements' = AddElement(elements, Class(Len(classes) + 1, FALSE))
    /\ Changed
    /\ UNCHANGED <<relationships, hashOf, cycles, searches, everFirst, calls,
                   args, ret, patVars>>

\* Parser._create_relationship followed by Diagram.add_relationship: an
\* endpoint that is no class of the diagram makes the lookup raise, and the
\* relationship is skipped.
AddRelationship(r) ==
    /\ elements' = AddElement(elements, r)
    /\ relationships' = AddRelationshipIndex(relationships, r)

CreateRelationship ==
    /\ Cardinality(RelsOf(elements)) < MaxRels
    /\ \E f \in ClassIds, t \in ClassIds, k \in CycleKinds :
          IF f \in ClassesOf(elements) /\ t \in ClassesOf(elements)
          THEN /\ AddRelationship(Relationship(
                      Cardinality(RelsOf(elements)) + 1, k, f, t, <<>>))
               /\ Changed
               /\ UNCHANGED <<hashOf, cycles, searches, everFirst, calls,
                              args, ret, patVars>>
          ELSE UNCHANGED vars

\* Every enumeration order of the relationships.
Orders == Perms({r.id : r \in RelsOf(elements)})

\* The search reads an incidence set through role=LHS alone, so of an
\* enumeration order only the order among the relationships that leave one
\* class reaches it: CycleOrders holds one order for each combination of these.
OutRels(c) == {r.id : r \in {x \in relationships[c] : x.from_cls = c}}

RECURSIVE OutOrdersFrom(_)
OutOrdersFrom(c) ==
    IF c > MaxClasses THEN {<<>>}
    ELSE {p \o q : p \in Perms(OutRels(c)), q \in OutOrdersFrom(c + 1)}

CycleOrders == OutOrdersFrom(1)

\* CycleFinder.cycles()
Cycles ==
    /\ calls < MaxCalls
    /\ \E ord \in CycleOrders :
          LET res == FindCycles(cycles, ord)
          IN /\ cycles' = res
             /\ cycLast' = Some(res)
             /\ cycFirst' = IF cycFirst = None THEN Some(res) ELSE cycFirst
             /\ everFirst' = IF everFirst = None THEN Some(res) ELSE everFirst
    /\ searches' = IF cycles = {} THEN searches + 1 ELSE searches
    /\ calls' = calls + 1
    /\ UNCHANGED <<elements, relationships, hashOf, cntLast, args, ret, patVars>>

\* cycle_count() reading the size of _cycles without _find_cycles first.
CycleCountNoFind ==
    /\ calls < MaxCalls
    /\ cntLast' = Some(Cardinality(cycles))
    /\ everFirst' = IF everFirst = None THEN Some(cycles) ELSE everFirst
    /\ calls' = calls + 1
    /\ UNCHANGED <<elements, relationships, hashOf, cycles, searches,
                   cycFirst, cycLast, args, ret, patVars>>

\* CycleFinder.cycle_count()
CycleCount ==
    /\ calls < MaxCalls
    /\ \E ord \in CycleOrders :
          LET res == FindCycles(cycles, ord)
          IN /\ cycles' = res
             /\ cntLast' = Some(Cardinality(res))
             /\ everFirst' = IF everFirst = None THEN Some(res) ELSE everFirst
    /\ searches' = IF cycles = {} THEN searches + 1 ELSE searches
    /\ calls' = calls + 1
    /\ UNCHANGED <<elements, relationships, hashOf, cycFirst, cycLast,
                   args, ret, patVars>>

Next == CreateClass \/ CreateRelationship \/ Cycles \/ CycleCount

Spec == Init /\ [][Next]_vars

(***************************************************************************)
(* The same finder over a diagram that parse_document has already built:   *)
(* every class, joined in a ring of dependencies.  Further relationships   *)
(* and queries follow.                                                     *)
(***************************************************************************)
RingRel(i) == Relationship(i, "Dependency", i, (i % MaxClasses) + 1, <<>>)

RingElements ==
    [i \in 1..(2 * MaxClasses) |->
        IF i <= MaxClasses THEN Class(i, FALSE) ELSE RingRel(i - MaxClasses)]

RingIndex ==
    [c \in ClassIds |-> {RingRel(c), RingRel(((c + MaxClasses - 2) % MaxClasses) + 1)}]

InitRing ==
    /\ elements = RingElements
    /\ relationships = RingIndex
    /\ hashOf \in HashSeeds
    /\ cycles = {}
    /\ searches = 0
    /\ everFirst = None
    /\ cycFirst = None
    /\ cycLast = None
    /\ cntLast = None
    /\ calls = 0
    /\ args = NoArgs
    /\ ret = NoArgs
    /\ InitPatternFinder

RingKinds == {"Dependency"}

CreateRelationshipRing ==
    /\ Cardinality(RelsOf(elements)) < MaxClasses + MaxRels
    /\ \E f \in ClassIds, t \in ClassIds, k \in RingKinds :
          /\ AddRelationship(Relationship(
                 Cardinality(RelsOf(elements)) + 1, k, f, t, <<>>))
          /\ Changed
          /\ UNCHANGED <<hashOf, cycles, searches, everFirst, calls,
                         args, ret, patVars>>

NextRing == CreateRelationshipRing \/ Cycles \/ CycleCount

SpecRing == InitRing /\ [][NextRing]_vars

(***************************************************************************)
(* The pure functions, applied to inputs drawn from bounded sets.          *)
(***************************************************************************)
\* Every sequence of distinct members of S, up to length n.
RECURSIVE DistinctSeqs(_, _)
DistinctSeqs(S, n) ==
    IF n = 0 THEN {<<>>}
    ELSE {<<>>} \cup UNION {{<<x>> \o p : p \in DistinctSeqs(S \ {x}, n - 1)}
                            : x \in S}

RECURSIVE SeqsUpTo(_, _)
SeqsUpTo(S, n) ==
    IF n = 0 THEN {<<>>}
    ELSE {<<>>} \cup {<<x>> \o p : x \in S, p \in SeqsUpTo(S, n - 1)}

StereotypeNames == CreationalNames \cup {"call"}

EqInputs ==
    LET cs == DistinctSeqs(ClassIds, MaxClasses)
    IN {<<"eq", a, b, c>> : a \in cs, b \in cs, c \in cs}

CreationalInputs ==
    {<<"is_creational", Relationship(1, k, 1, 2, st)>> :
        k \in RelTypes, st \in SeqsUpTo(StereotypeNames, MaxStereotypes)}

\* app/metric/model.py.  A metric value is written in ticks of half the
\* machine epsilon, so that values below, at and above metric_eps exist; a
\* float result is the exact fraction <<numerator, denominator>>, which
\* makes 0.0 the fraction <<0, 1>> and float('inf') the fraction <<1, 0>>.
metric_eps == 2
metric_inf == <<1, 0>>

\* RatioMetric.value testing the denominator before the numerator.
RatioValueDenominatorFirst(num, den) ==
    IF den <= metric_eps THEN metric_inf
    ELSE IF num <= metric_eps THEN <<0, 1>>
    ELSE <<num, den>>

\* RatioMetric.value
RatioValue(num, den) ==
    IF num <= metric_eps THEN <<0, 1>>
    ELSE IF den <= metric_eps THEN metric_inf
    ELSE <<num, den>>

MetricValues == (0 - 1)..MaxMetric

RatioInputs == {<<"ratio", n, d>> : n \in MetricValues, d \in MetricValues}

\* app/util/json.py.  itertools.groupby: a new group begins whenever the
\* name differs from that of the pattern before.
RECURSIVE GroupBy(_, _)
GroupBy(ps, groups) ==
    IF ps = <<>> THEN groups
    ELSE IF groups # <<>> /\ groups[Len(groups)].key = Head(ps).name
    THEN GroupBy(Tail(ps),
                 [groups EXCEPT ![Len(groups)].val = Append(@, Head(ps))])
    ELSE GroupBy(Tail(ps),
                 Append(groups, [key |-> Head(ps).name, val |-> <<Head(ps)>>]))

\* dict(pairs): a pair whose key is known replaces the value and keeps the
\* key's place.
RECURSIVE DictOf(_, _)
DictOf(pairs, obj) ==
    IF pairs = <<>> THEN obj
    ELSE DictOf(Tail(pairs),
                IF HasKey(obj, Head(pairs).key)
                THEN [i \in 1..Len(obj) |->
                        IF obj[i].key = Head(pairs).key THEN Head(pairs)
                        ELSE obj[i]]
                ELSE Append(obj, Head(pairs)))

\* encode_patterns: the object handed to encode.
EncodePatterns(ps) == DictOf(GroupBy(ps, <<>>), <<>>)

\* The sequences of patterns encode_patterns is called on: each pattern a
\* new object.
PatternNames == {"Adapter", "Facade", "Proxy"}

PatternNamed(name, oid) ==
    IF name = "Adapter" THEN Adapter(oid, 1, 2, 3)
    ELSE IF name = "Proxy" THEN Proxy(oid, 2, 1, 3)
    ELSE Facade(oid, 1, <<2, 3, 2>>)

EncodeInputs ==
    {<<"encode", [i \in 1..Len(names) |-> PatternNamed(names[i], i)]>> :
        names \in SeqsUpTo(PatternNames, MaxPatterns)}

InitPure ==
    /\ elements = <<>>
    /\ relationships = [c \in ClassIds |-> {}]
    /\ hashOf \in HashSeeds
    /\ cycles = {}
    /\ searches = 0
    /\ everFirst = None
    /\ cycFirst = None
    /\ cycLast = None
    /\ cntLast = None
    /\ calls = 0
    /\ args \in EqInputs \cup CreationalInputs \cup RatioInputs
                \cup EncodeInputs
    /\ ret = None
    /\ InitPatternFinder

\* Cycle(a) == Cycle(b) and the comparisons around it.
CallCycleEq ==
    /\ args[1] = "eq"
    /\ ret = None
    /\ ret' = Some([ab |-> CycleEq(args[2], args[3]),
                    ba |-> CycleEq(args[3], args[2]),
                    bc |-> CycleEq(args[3], args[4]),
                    ac |-> CycleEq(args[2], args[4]),
                    aa |-> CycleEq(args[2], args[2])])
    /\ UNCHANGED <<elements, relationships, hashOf, cycles, searches,
                   everFirst, cycFirst, cycLast, cntLast, calls, args, patVars>>

\* relationship.is_creational
CallIsCreational ==
    /\ args[1] = "is_creational"
    /\ ret = None
    /\ ret' = Some(IsCreational(args[2]))
    /\ UNCHANGED <<elements, relationships, hashOf, cycles, searches,
                   everFirst, cycFirst, cycLast, cntLast, calls, args, patVars>>

\* RatioMetric(numerator, denominator).value
CallRatioValue ==
    /\ args[1] = "ratio"
    /\ ret = None
    /\ ret' = Some(RatioValue(args[2], args[3]))
    /\ UNCHANGED <<elements, relationships, hashOf, cycles, searches,
                   everFirst, cycFirst, cycLast, cntLast, calls, args, patVars>>

\* json.encode_patterns(ps, path) called on a sequence of patterns: the
\* object it hands to encode.
CallEncodePatterns ==
    /\ args[1] = "encode"
    /\ ret = None
    /\ ret' = Some(EncodePatterns(args[2]))
    /\ UNCHANGED <<elements, relationships, hashOf, cycles, searches,
                   everFirst, cycFirst, cycLast, cntLast, calls, args, patVars>>

NextPure ==
    CallCycleEq \/ CallIsCreational \/ CallRatioValue \/ CallEncodePatterns

SpecPure == InitPure /\ [][NextPure]_vars

(***************************************************************************)
(* The pattern finder: parse_document builds the diagram, then the finder  *)
(* is queried.                                                             *)
(***************************************************************************)
PatternKinds == {"Realization", "Dependency"}

\* The classes of the document that may carry the Interface stereotype.
InterfaceIds == {1}

\* Parser._create_class, for a class or an interface.
CreateClassOrInterface ==
    /\ calls = 0
    /\ Len(classes) < MaxClasses
    /\ RelsOf(elements) = {}
    /\ \E interface \in BOOLEAN :
          /\ interface => (Len(classes) + 1) \in InterfaceIds
          /\ elements' = AddElement(elements,
                                    Class(Len(classes) + 1, interface))
    /\ UNCHANGED <<relationships, hashOf, cycVars, pureVars, patVars>>

\* Parser._create_relationship between classes of the diagram.
CreatePatternRelationship ==
    /\ calls = 0
    /\ Cardinality(RelsOf(elements)) < MaxRels
    /\ \E f \in ClassesOf(elements), t \in ClassesOf(elements),
          k \in PatternKinds :
          AddRelationship(Relationship(
              Cardinality(RelsOf(elements)) + 1, k, f, t, <<>>))
    /\ UNCHANGED <<hashOf, cycVars, pureVars, patVars>>

\* list(finder.patterns()): what the call yields; one that raises, as
\* every call on an empty index does, yields nothing.
CallPatterns ==
    /\ calls < MaxCalls
    /\ \E ord \in Orders :
       \E found \in {FindPatterns(patterns, made, ord)} :
       \E res \in {IF found.raised THEN <<>>
                   ELSE Patterns(found.idx, None, None).yielded} :
          /\ patterns' = found.idx
          /\ made' = made + Len(found.out)
          /\ matched' = matched \o found.out
          /\ patFirst' = IF patFirst = None THEN Some(res) ELSE patFirst
          /\ patAgain' = IF patFirst = None THEN patAgain ELSE Some(res)
          /\ idxFirst' = IF idxFirst = None THEN Some(found.idx)
                         ELSE idxFirst
          /\ patRaised' = (patRaised \/ found.raised)
    /\ calls' = calls + 1
    /\ UNCHANGED <<diagVars, cycles, searches, everFirst, cycFirst, cycLast,
                   cntLast, pureVars>>

\* list(finder.patterns(cls=c)) for a class c of the diagram, as the first
\* query of the finder: what the call yields, and the exception that ended
\* it, if any: AttributeError out of _find_patterns, or KeyError out of
\* self._patterns[c].
CallPatternsOf ==
    /\ calls < MaxCalls
    /\ ret = None
    /\ \E c \in ClassesOf(elements), ord \in Orders :
       \E found \in {FindPatterns(patterns, made, ord)} :
       \E res \in {Patterns(found.idx, Some(c), None)} :
          /\ patterns' = found.idx
          /\ made' = made + Len(found.out)
          /\ matched' = matched \o found.out
          /\ patRaised' = (patRaised \/ found.raised)
          /\ ret' = Some([cls |-> c,
                          attribute_error |-> found.raised,
                          key_error |-> ~found.raised /\ res.raised,
                          yielded |-> IF found.raised THEN <<>>
                                      ELSE res.yielded])
    /\ calls' = calls + 1
    /\ UNCHANGED <<diagVars, cycles, searches, everFirst, cycFirst, cycLast,
                   cntLast, args, patFirst, patAgain, idxFirst>>

\* controller.detect_patterns(doc, output_path): the finder of a fresh
\* factory, its index empty, and encode_patterns consuming patterns().  The
\* exception of _find_patterns leaves the generator before groupby has
\* yielded a group, so that encode is not called and no file is written.
DetectPatterns ==
    /\ calls < MaxCalls
    /\ ret = None
    /\ \E ord \in Orders :
       \E found \in {FindPatterns(<<>>, 0, ord)} :
          ret' = Some([op |-> "controller.detect_patterns",
                       raised |-> found.raised,
                       written |->
                           IF found.raised THEN None
                           ELSE Some(EncodePatterns(
                                    Patterns(found.idx, None, None).yielded))])
    /\ calls' = calls + 1
    /\ UNCHANGED <<diagVars, cycles, searches, everFirst, cycFirst, cycLast,
                   cntLast, args, patVars>>

NextPattern ==
    CreateClassOrInterface \/ CreatePatternRelationship \/ CallPatterns
        \/ DetectPatterns

SpecPattern == Init /\ [][NextPattern]_vars

\* The same finder queried for the patterns of one class.
NextFocal ==
    CreateClassOrInterface \/ CreatePatternRelationship \/ CallPatternsOf

SpecFocal == Init /\ [][NextFocal]_vars

(***************************************************************************)
(* app/metric/model.py and app/metric/aggregator.py: parse_document builds *)
(* the diagram, then every metric of compute_metrics() is read.  A float   *)
(* is the exact fraction <<numerator, denominator>>, a count is a whole    *)
(* number.                                                                 *)
(***************************************************************************)
\* A whole number in the ticks RatioValue compares with metric_eps: one is
\* far above epsilon, and any factor above metric_eps orders the whole
\* numbers against metric_eps as the floats are ordered.
Ticks(k) == k * (metric_eps + 1)

Package(p) == [kind |-> "Package", id |-> p]

\* Diagram.packages()
IsPackage(e) == e.kind = "Package"
packages == SelectSeq(elements, IsPackage)

\* Packages._compute
PackagesValue == Len(packages)

\* Classes._compute
ClassesValue == Len(classes)

\* PatternTypes._compute over what patterns() yields.
PatternTypesValue(ps) == Cardinality({ps[i].name : i \in 1..Len(ps)})

\* ClassesInPattern._compute
ClassesInPatternValue(ps) ==
    Cardinality(UNION {Range(InvolvedClasses(ps[i])) : i \in 1..Len(ps)})

\* MethodInstances._compute: the classes declare no method, so the sum is 0
\* unless Diagram.methods raises for one of them.
MethodInstancesRaises(ord) ==
    \E i \in 1..Len(classes) : MethodsRaises(classes[i].id, ord)

\* RelationshipInstances._compute
RECURSIVE RelationshipInstancesFrom(_, _)
RelationshipInstancesFrom(cs, ord) ==
    IF cs = <<>> THEN 0
    ELSE Len(Relationships(Head(cs).id, {}, "ANY", ord))
            + RelationshipInstancesFrom(Tail(cs), ord)

RelationshipInstancesValue(ord) == RelationshipInstancesFrom(classes, ord)

\* Diagram.leaf_classes
LeafClasses(exclude_standalone, ord) ==
    LET Leaf(c) == /\ ~c.is_interface
                   /\ ~HasSubClasses(c.id, ord)
                   /\ (~exclude_standalone \/ HasSuperClasses(c.id, ord))
    IN SelectSeq(classes, Leaf)

\* AvgInheritanceDepth._compute: the sum of the depths of the leaves.
RECURSIVE DepthSum(_, _)
DepthSum(cs, ord) ==
    IF cs = <<>> THEN [raised |-> FALSE, depth |-> 0]
    ELSE LET here == InheritanceDepth(Head(cs).id, ord)
             rest == DepthSum(Tail(cs), ord)
         IN [raised |-> here.raised \/ rest.raised,
             depth |-> here.depth + rest.depth]

AvgInheritanceDepthOver(leaf_classes, ord) ==
    IF Len(leaf_classes) = 0 THEN [raised |-> FALSE, value |-> <<0, 1>>]
    ELSE [raised |-> DepthSum(leaf_classes, ord).raised,
          value |-> <<DepthSum(leaf_classes, ord).depth, Len(leaf_classes)>>]

AvgInheritanceDepthValue(ord) == AvgInheritanceDepthOver(LeafClasses(TRUE, ord), ord)

\* DependencyCycles._compute: cycle_count()
DependencyCyclesValue(cyc) == Cardinality(cyc)

\* ClassesInCycle counting the cycles and not their classes.
ClassesInCycleCountingCycles(cyc) == Cardinality(cyc)

\* ClassesInCycle._compute
ClassesInCycleValue(cyc) == Cardinality(UNION {Range(c) : c \in cyc})

\* The configuration: a dict from metric identifiers to weights.
ConfigKeys == {"packages", "development_cost"}
Configs == UNION {[K -> 1..MaxWeight] : K \in SUBSET ConfigKeys}

\* MetricAggregator._development_cost
DevelopmentCostValue(config) ==
    IF "development_cost" \in DOMAIN config THEN config["development_cost"]
    ELSE 0

\* MetricAggregator._remediation_cost with LinearCombinationMetric.value: of
\* the base metrics, the configurations here weight Packages.
Weighted(config, identifier, value) ==
    IF identifier \in DOMAIN config THEN value * config[identifier] ELSE 0

RemediationCostValue(config) ==
    Weighted(config, "packages", PackagesValue)

\* MetricAggregator._technical_debt_ratio
TechnicalDebtRatioValue(config) ==
    RatioValue(Ticks(RemediationCostValue(config)),
               Ticks(DevelopmentCostValue(config)))

\* The ratio of a count to the number of classes.
PerClass(count) == RatioValue(Ticks(count), Ticks(ClassesValue))

\* Metric.value read on its own: None when the read raises, Some(v) when it
\* returns v.
Read(raises, v) == IF raises THEN None ELSE Some(v)

\* MetricAggregator.compute_metrics, every value read on its own: found is
\* what _find_patterns does when PatternTypes or ClassesInPattern calls
\* patterns(), cyc the cycle set.  A ratio reads its numerator first.
MetricsRead(config, found, cyc, ord) ==
    [packages |-> Some(PackagesValue),
     classes |-> Some(ClassesValue),
     pattern_types |->
         Read(found.raised,
              PatternTypesValue(Patterns(found.idx, None, None).yielded)),
     classes_in_pattern |->
         Read(found.raised,
              ClassesInPatternValue(Patterns(found.idx, None, None).yielded)),
     method_instances |-> Read(MethodInstancesRaises(ord), 0),
     relationship_instances |-> Some(RelationshipInstancesValue(ord)),
     avg_inheritance_depth |->
         Read(AvgInheritanceDepthValue(ord).raised,
              AvgInheritanceDepthValue(ord).value),
     dependency_cycles |-> Some(DependencyCyclesValue(cyc)),
     classes_in_cycle |-> Some(ClassesInCycleValue(cyc)),
     classes_in_pattern_ratio |->
         Read(found.raised,
              PerClass(ClassesInPatternValue(
                  Patterns(found.idx, None, None).yielded))),
     avg_methods_per_class |-> Read(MethodInstancesRaises(ord), PerClass(0)),
     avg_relationships_per_class |->
         Some(PerClass(RelationshipInstancesValue(ord))),
     classes_in_cycle_ratio |-> Some(PerClass(ClassesInCycleValue(cyc))),
     development_cost |-> Some(<<DevelopmentCostValue(config), 1>>),
     remediation_cost |-> Some(<<RemediationCostValue(config), 1>>),
     technical_debt_ratio |-> Some(TechnicalDebtRatioValue(config))]

\* What stops the printing of the metrics one after the other:
\* AttributeError out of patterns(), read third, or RecursionError out of
\* methods() or inheritance_depth(), all of them read before the cycle
\* finder is.
MetricsRaise(found, ord) ==
    \/ found.raised
    \/ MethodInstancesRaises(ord)
    \/ AvgInheritanceDepthValue(ord).raised

MetricInputs == {<<"metrics", config>> : config \in Configs}

InitMetric ==
    /\ elements = <<>>
    /\ relationships = [c \in ClassIds |-> {}]
    /\ hashOf \in HashSeeds
    /\ cycles = {}
    /\ searches = 0
    /\ everFirst = None
    /\ cycFirst = None
    /\ cycLast = None
    /\ cntLast = None
    /\ calls = 0
    /\ args \in MetricInputs
    /\ ret = None
    /\ InitPatternFinder

\* Parser._create_package: the package of the document that holds its
\* classes.
CreatePackage ==
    /\ ret = None
    /\ Len(packages) < MaxPackages
    /\ classes = <<>>
    /\ elements' = AddElement(elements, Package(Len(packages) + 1))
    /\ UNCHANGED <<relationships, hashOf, cycVars, pureVars, patVars>>

\* Parser._create_class
CreateMetricClass ==
    /\ ret = None
    /\ Len(classes) < MaxClasses
    /\ RelsOf(elements) = {}
    /\ elements' = AddElement(elements, Class(Len(classes) + 1, FALSE))
    /\ UNCHANGED <<relationships, hashOf, cycVars, pureVars, patVars>>

\* Parser._create_relationship between classes of the diagram.
CreateMetricRelationship ==
    /\ ret = None
    /\ Cardinality(RelsOf(elements)) < MaxRels
    /\ \E f \in ClassesOf(elements), t \in ClassesOf(elements),
          k \in CycleKinds :
          AddRelationship(Relationship(
              Cardinality(RelsOf(elements)) + 1, k, f, t, <<>>))
    /\ UNCHANGED <<hashOf, cycVars, pureVars, patVars>>

\* controller.compute_metrics: the aggregator of a fresh factory, and each
\* metric printed, up to the first whose value raises.  cycle_count()
\* searches, and cycles() searches again when the first search found
\* nothing.
ComputeMetrics ==
    /\ ret = None
    /\ \E ord \in Orders :
       \E found \in {FindPatterns(patterns, made, ord)} :
       \E raised \in {MetricsRaise(found, ord)} :
       \E cyc \in {IF raised THEN cycles ELSE FindCycles(cycles, ord)} :
          /\ patterns' = found.idx
          /\ made' = made + Len(found.out)
          /\ matched' = matched \o found.out
          /\ patRaised' = (patRaised \/ found.raised)
          /\ cycles' = cyc
          /\ searches' = IF raised THEN searches
                         ELSE IF cyc = {} THEN searches + 2
                         ELSE searches + 1
          /\ ret' = Some([op |-> "controller.compute_metrics",
                          raised |-> raised,
                          values |-> IF raised THEN None
                                     ELSE Some(MetricsRead(args[2], found,
                                                           cyc, ord))])
    /\ UNCHANGED <<diagVars, everFirst, cycFirst, cycLast, cntLast, calls,
                   args, patFirst, patAgain, idxFirst>>

\* MetricAggregator.compute_metrics() of a fresh factory, and the value of
\* each of the metrics it returns read on its own, an exception out of one
\* value leaving the others to be read.
ReadMetrics ==
    /\ ret = None
    /\ \E ord \in Orders :
       \E found \in {FindPatterns(patterns, made, ord)} :
       \E cyc \in {FindCycles(cycles, ord)} :
          /\ patterns' = found.idx
          /\ made' = made + Len(found.out)
          /\ matched' = matched \o found.out
          /\ patRaised' = (patRaised \/ found.raised)
          /\ cycles' = cyc
          /\ searches' = IF cyc = {} THEN searches + 2 ELSE searches + 1
          /\ ret' = Some([op |-> "MetricAggregator.compute_metrics",
                          raised |-> FALSE,
                          values |-> Some(MetricsRead(args[2], found, cyc,
                                                      ord))])
    /\ UNCHANGED <<diagVars, everFirst, cycFirst, cycLast, cntLast, calls,
                   args, patFirst, patAgain, idxFirst>>

NextMetric ==
    CreatePackage \/ CreateMetricClass \/ CreateMetricRelationship
        \/ ComputeMetrics \/ ReadMetrics

SpecMetric == InitMetric /\ [][NextMetric]_vars

(***************************************************************************)
(* app/uml/parser.py: _parse_relationships reading the relationship nodes  *)
(* of a document, the malformed ones among them.  A node is written as     *)
(* what the parser reads of it: its tag, whether it has an Id, the From    *)
(* and To (or EndModelElement) references, None for a missing one, and     *)
(* whether both ends carry a Multiplicity.  A reference is the kind and    *)
(* the identifier of the element it names.                                 *)
(***************************************************************************)
NodeTags == {"Dependency", "Association"}

NodeRefs ==
    {None} \cup {<<"Class", c>> : c \in ClassIds}
           \cup {<<"Package", p>> : p \in 1..MaxPackages}

Nodes ==
    {n \in [tag : NodeTags, id : BOOLEAN, from : NodeRefs, to : NodeRefs,
            mult : BOOLEAN] : n.tag = "Dependency" => n.mult}

\* Parser._parse_identifier: the attribute, or an exception when it is
\* missing.
ParseIdentifierRaises(value) == value = None

\* _get_typed_element raising only when no element has the identifier.
GetTypedElementRaisesOnMissing(els, kind, identifier) ==
    ~\E e \in Range(els) : identifier = <<e.kind, e.id>>

\* Diagram._get_typed_element: KeyError unless an element of the kind has
\* the identifier.
GetTypedElementRaises(els, kind, identifier) ==
    ~\E e \in Range(els) : e.kind = kind /\ identifier = <<e.kind, e.id>>

\* Diagram.cls of a reference read from the node.
ClsRaises(els, ref) ==
    ParseIdentifierRaises(ref) \/ GetTypedElementRaises(els, "Class", ref)

\* The try block of _create_relationship raises before add_relationship.
CreateRelationshipRaises(els, node) ==
    \/ ~node.id
    \/ ClsRaises(els, node.from)
    \/ ClsRaises(els, node.to)

\* The try block of _create_association raises before add_relationship.
CreateAssociationRaises(els, node) ==
    \/ ClsRaises(els, node.from)
    \/ ClsRaises(els, node.to)
    \/ ~node.id
    \/ ~node.mult

\* The diagram after the node: as it was when the try block raised, and
\* with the relationship added when it did not.
AfterNode(els, idx, node, raised) ==
    IF raised THEN [elements |-> els, relationships |-> idx, added |-> FALSE]
    ELSE [elements |->
              AddElement(els, Relationship(Cardinality(RelsOf(els)) + 1,
                                  node.tag, node.from[2], node.to[2], <<>>)),
          relationships |->
              AddRelationshipIndex(idx,
                  Relationship(Cardinality(RelsOf(els)) + 1,
                               node.tag, node.from[2], node.to[2], <<>>)),
          added |-> TRUE]

\* What the document names: a reference to a class of the diagram.
NamesKnownClass(els, ref) ==
    /\ ref # None
    /\ ref[1] = "Class"
    /\ ref[2] \in ClassesOf(els)

\* The progress of _parse_relationships: the nodes read and skipped so far,
\* the last node's reading, and the diagram before it.
Parsed == IF ret = None THEN 0 ELSE ret[1].parsed
Skipped == IF ret = None THEN 0 ELSE ret[1].skipped
AssociationsBegun == ret # None /\ ret[1].tag = "Association"

Progress(node, after) ==
    [parsed |-> Parsed + 1,
     skipped |-> IF after.added THEN Skipped ELSE Skipped + 1,
     tag |-> node.tag,
     dangling |-> ~(NamesKnownClass(elements, node.from)
                        /\ NamesKnownClass(elements, node.to)),
     added |-> after.added,
     before |-> [elements |-> elements, relationships |-> relationships]]

ReadNode(node, after) ==
    /\ elements' = after.elements
    /\ relationships' = after.relationships
    /\ ret' = Some(Progress(node, after))

\* Parser._create_relationship on the next Dependency node: the nodes of
\* the other relationship tags are read before the first Association.
ParseRelationship ==
    /\ Len(classes) > 0
    /\ Parsed < MaxRels
    /\ ~AssociationsBegun
    /\ \E node \in {n \in Nodes : n.tag # "Association"} :
          ReadNode(node, AfterNode(elements, relationships, node,
                       CreateRelationshipRaises(elements, node)))
    /\ UNCHANGED <<hashOf, cycVars, args, patVars>>

\* Parser._create_association on the next Association node.
ParseAssociation ==
    /\ Len(classes) > 0
    /\ Parsed < MaxRels
    /\ \E node \in {n \in Nodes : n.tag = "Association"} :
          ReadNode(node, AfterNode(elements, relationships, node,
                       CreateAssociationRaises(elements, node)))
    /\ UNCHANGED <<hashOf, cycVars, args, patVars>>

NextParse ==
    CreatePackage \/ CreateMetricClass \/ ParseRelationship
        \/ ParseAssociation

SpecParse == Init /\ [][NextParse]_vars

(***************************************************************************)
(* app/cycle/search.py, one iteration of the while loop of Node.search at  *)
(* a time: parse_document builds the diagram, a search starts from a root  *)
(* and runs until its fringe is empty.  The search in progress is held in  *)
(* ret: the fringe, the closed set and the solutions of the code, the goal *)
(* and the enumeration order of the run, and the classes whose children    *)
(* have been put on the fringe, one entry for each time.                   *)
(***************************************************************************)
\* Parser._create_relationship between classes of the diagram.
CreateSearchRelationship ==
    /\ ret = None
    /\ Cardinality(RelsOf(elements)) < MaxRels
    /\ \E f \in ClassesOf(elements), t \in ClassesOf(elements),
          k \in RingKinds :
          AddRelationship(Relationship(
              Cardinality(RelsOf(elements)) + 1, k, f, t, <<>>))
    /\ UNCHANGED <<hashOf, cycVars, pureVars, patVars>>

\* Node.search up to the while loop.
StartSearch ==
    /\ ret = None
    /\ \E root \in ClassesOf(elements), ord \in CycleOrders :
          ret' = Some([fringe |-> <<<<root>>>>, closed |-> {},
                       solutions |-> <<>>, goal |-> root, ord |-> ord,
                       expanded |-> <<>>])
    /\ UNCHANGED <<diagVars, cycVars, args, patVars>>

\* An iteration that adds the node to closed and expands it even when its
\* class is closed already.
SearchIterationNoClosedTest(st) ==
    [st EXCEPT
        !.fringe = Tail(st.fringe) \o Children(Head(st.fringe), st.ord),
        !.solutions = IF NodeCls(Head(st.fringe)) = st.goal
                      THEN Append(@, Head(st.fringe)) ELSE @,
        !.closed = @ \cup {NodeCls(Head(st.fringe))},
        !.expanded = Append(@, NodeCls(Head(st.fringe)))]

\* One iteration of the while loop: popleft, the goal test, the closed test.
SearchIteration(st) ==
    IF NodeCls(Head(st.fringe)) \notin st.closed
    THEN [st EXCEPT
            !.fringe = Tail(st.fringe) \o Children(Head(st.fringe), st.ord),
            !.solutions = IF NodeCls(Head(st.fringe)) = st.goal
                          THEN Append(@, Head(st.fringe)) ELSE @,
            !.closed = @ \cup {NodeCls(Head(st.fringe))},
            !.expanded = Append(@, NodeCls(Head(st.fringe)))]
    ELSE [st EXCEPT
            !.fringe = Tail(st.fringe),
            !.solutions = IF NodeCls(Head(st.fringe)) = st.goal
                          THEN Append(@, Head(st.fringe)) ELSE @]

SearchStep ==
    /\ ret # None
    /\ ret[1].fringe # <<>>
    /\ ret' = Some(SearchIteration(ret[1]))
    /\ UNCHANGED <<diagVars, cycVars, args, patVars>>

NextSearch ==
    CreateMetricClass \/ CreateSearchRelationship \/ StartSearch
        \/ SearchStep

\* The loop is not held up: an iteration that can run does run.
SpecSearch == Init /\ [][NextSearch]_vars /\ WF_vars(SearchStep)

(***************************************************************************)
(* The cycle finder over a larger document: one class more than the other  *)
(* diagrams have, joined by the dependencies of WideEdges; one further     *)
(* relationship and the queries follow.                                    *)
(***************************************************************************)
WideClasses == MaxClasses + 1
WideIds == 1..WideClasses

WideEdges ==
    << <<1, 2>>, <<1, 3>>, <<2, 1>>, <<2, 3>>, <<3, 1>>, <<3, 4>>, <<4, 2>> >>

WideRel(i) ==
    Relationship(i, "Dependency", WideEdges[i][1], WideEdges[i][2], <<>>)

WideElements ==
    [i \in 1..(WideClasses + Len(WideEdges)) |->
        IF i <= WideClasses THEN Class(i, FALSE) ELSE WideRel(i - WideClasses)]

WideIndex ==
    [c \in WideIds |->
        {WideRel(i) : i \in {j \in 1..Len(WideEdges) :
                                c \in Range(WideEdges[j])}}]

InitWide ==
    /\ elements = WideElements
    /\ relationships = WideIndex
    /\ hashOf = [c \in WideIds |-> c % (2^HashBits)]
    /\ cycles = {}
    /\ searches = 0
    /\ everFirst = None
    /\ cycFirst = None
    /\ cycLast = None
    /\ cntLast = None
    /\ calls = 0
    /\ args = NoArgs
    /\ ret = NoArgs
    /\ InitPatternFinder

\* One order for each combination of the orders in which the relationships
\* that leave one class are enumerated.
RECURSIVE WideOrdersFrom(_)
WideOrdersFrom(c) ==
    IF c > WideClasses THEN {<<>>}
    ELSE {p \o q : p \in Perms(OutRels(c)), q \in WideOrdersFrom(c + 1)}

WideOrders == WideOrdersFrom(1)

\* Parser._create_relationship: one relationship beyond those of WideEdges.
CreateRelationshipWide ==
    /\ Cardinality(RelsOf(elements)) <= Len(WideEdges)
    /\ \E f \in WideIds, t \in WideIds, k \in RingKinds :
          /\ AddRelationship(Relationship(
                 Cardinality(RelsOf(elements)) + 1, k, f, t, <<>>))
          /\ Changed
          /\ UNCHANGED <<hashOf, cycles, searches, everFirst, calls,
                         args, ret, patVars>>

\* CycleFinder.cycles()
CyclesWide ==
    /\ calls < MaxCalls
    /\ \E ord \in WideOrders :
       \E res \in {FindCycles(cycles, ord)} :
          /\ cycles' = res
          /\ cycLast' = Some(res)
          /\ cycFirst' = IF cycFirst = None THEN Some(res) ELSE cycFirst
          /\ everFirst' = IF everFirst = None THEN Some(res) ELSE everFirst
    /\ searches' = IF cycles = {} THEN searches + 1 ELSE searches
    /\ calls' = calls + 1
    /\ UNCHANGED <<elements, relationships, hashOf, cntLast, args, ret, patVars>>

NextWide == CreateRelationshipWide \/ CyclesWide

SpecWide == InitWide /\ [][NextWide]_vars

(***************************************************************************)
(* The matchers asked one at a time: a document is parsed, then one        *)
(* matcher is run on one class of the diagram.                             *)
(***************************************************************************)
\* m.match(dg, cls) for one of the matchers ms and one class.
MatchOnce(ms) ==
    /\ calls < MaxCalls
    /\ ret = None
    /\ \E m \in ms, c \in ClassesOf(elements), ord \in Orders :
       \E res \in {MatchWith(m, c, 0, ord)} :
          ret' = Some([matcher |-> m, cls |-> c, out |-> res.out,
                       raised |-> res.raised])
    /\ calls' = calls + 1
    /\ UNCHANGED <<diagVars, cycles, searches, everFirst, cycFirst, cycLast,
                   cntLast, args, patVars>>

\* AdapterMatcher, FacadeMatcher or ProxyMatcher run on one class of a
\* diagram of realizations and dependencies.
DependencyMatchers == {"AdapterMatcher", "FacadeMatcher", "ProxyMatcher"}

MatchDependencies == MatchOnce(DependencyMatchers)

NextMatch ==
    CreateClassOrInterface \/ CreatePatternRelationship \/ MatchDependencies

SpecMatch == Init /\ [][NextMatch]_vars

\* list(MultiMatcher(*matchers).match(dg, cls)) for one class: every matcher
\* run on it in turn, up to the first one that raises.
MatchAll ==
    /\ calls < MaxCalls
    /\ ret = None
    /\ \E c \in ClassesOf(elements), ord \in Orders :
       \E res \in {MultiMatch(c, 0, ord)} :
          ret' = Some([matcher |-> "MultiMatcher", cls |-> c,
                       out |-> res.out, raised |-> res.raised])
    /\ calls' = calls + 1
    /\ UNCHANGED <<diagVars, cycles, searches, everFirst, cycFirst, cycLast,
                   cntLast, args, patVars>>

NextMulti == CreateClassOrInterface \/ CreatePatternRelationship \/ MatchAll

SpecMulti == Init /\ [][NextMulti]_vars

(***************************************************************************)
(* A document whose classes declare methods: class 1, possibly an          *)
(* interface, without methods, and two classes with the methods of         *)
(* FactoryMethods and ProductMethods.                                      *)
(***************************************************************************)
MethodNames ==
    [new |-> <<"n", "e", "w">>, New |-> <<"N", "e", "w">>,
     renew |-> <<"r", "e", "n", "e", "w">>, get |-> <<"g", "e", "t">>]

\* The method lists of class 2 and of class 3.
FactoryMethods ==
    {<<>>,
     <<Method(MethodNames.new, Some(1))>>,
     <<Method(MethodNames.New, Some(3))>>,
     <<Method(MethodNames.renew, Some(1))>>,
     <<Method(MethodNames.get, Some(3)), Method(MethodNames.new, None)>>}

ProductMethods == {<<>>, <<Method(MethodNames.new, Some(1))>>}

InitFactory ==
    /\ \E interface \in BOOLEAN, fm \in FactoryMethods,
          pm \in ProductMethods :
          elements = <<Class(1, interface), ClassWithMethods(2, FALSE, fm),
                       ClassWithMethods(3, FALSE, pm)>>
    /\ relationships = [c \in ClassIds |-> {}]
    /\ hashOf \in HashSeeds
    /\ cycles = {}
    /\ searches = 0
    /\ everFirst = None
    /\ cycFirst = None
    /\ cycLast = None
    /\ cntLast = None
    /\ calls = 0
    /\ args = NoArgs
    /\ ret = NoArgs
    /\ InitPatternFinder

\* The stereotype lists of the dependencies: none, a creational stereotype,
\* one that is not.
FactoryStereotypes == {<<>>, <<"create">>, <<"use">>}

\* The relationships r would join form no hierarchy cycle: reading the
\* methods of a class ends.
NoHierarchyCycle(r) ==
    \/ r.rel_type = "Dependency"
    \/ /\ r.from_cls # r.to_cls
       /\ \A x \in RelsOf(elements) :
             x.rel_type = "Dependency"
                \/ {x.from_cls, x.to_cls} # {r.from_cls, r.to_cls}
                \/ <<x.from_cls, x.to_cls>> = <<r.from_cls, r.to_cls>>

\* Parser._create_relationship: a realization, or a dependency with its
\* stereotypes; the document has at most MaxFactoryRels relationships.
MaxFactoryRels == 2

CreateFactoryRelationship ==
    /\ calls = 0
    /\ Cardinality(RelsOf(elements)) < MaxFactoryRels
    /\ \E f \in ClassIds, t \in ClassIds, k \in PatternKinds,
          st \in FactoryStereotypes :
          /\ k = "Realization" => st = <<>>
          /\ NoHierarchyCycle(Relationship(
                 Cardinality(RelsOf(elements)) + 1, k, f, t, st))
          /\ AddRelationship(Relationship(
                 Cardinality(RelsOf(elements)) + 1, k, f, t, st))
    /\ UNCHANGED <<hashOf, cycVars, pureVars, patVars>>

\* FactoryMethodMatcher run on one class.
MatchFactoryMethods == MatchOnce({"FactoryMethodMatcher"})

NextFactory == CreateFactoryRelationship \/ MatchFactoryMethods

SpecFactory == InitFactory /\ [][NextFactory]_vars

(***************************************************************************)
(* A document with a class hierarchy and one association.  The hierarchy   *)
(* joins class 1 to 2 and to 3, and 2 to 4; interface says whether class 1 *)
(* is an interface, joined by realizations, and upward whether the edges   *)
(* run from the lower class to the upper one.                              *)
(***************************************************************************)
HierarchyEdges == << <<1, 2>>, <<1, 3>>, <<2, 4>> >>

HierarchyRel(i, interface, upward) ==
    Relationship(i,
                 IF interface /\ 1 \in Range(HierarchyEdges[i])
                 THEN "Realization" ELSE "Generalization",
                 HierarchyEdges[i][IF upward THEN 2 ELSE 1],
                 HierarchyEdges[i][IF upward THEN 1 ELSE 2],
                 <<>>)

HierarchyElements(interface, upward) ==
    [i \in 1..(WideClasses + Len(HierarchyEdges)) |->
        IF i <= WideClasses THEN Class(i, interface /\ i = 1)
        ELSE HierarchyRel(i - WideClasses, interface, upward)]

HierarchyIndex(interface, upward) ==
    [c \in WideIds |->
        {HierarchyRel(i, interface, upward) :
            i \in {j \in 1..Len(HierarchyEdges) :
                      c \in Range(HierarchyEdges[j])}}]

InitHierarchy ==
    /\ \E interface \in BOOLEAN, upward \in BOOLEAN :
          /\ elements = HierarchyElements(interface, upward)
          /\ relationships = HierarchyIndex(interface, upward)
    /\ hashOf = [c \in WideIds |-> c % (2^HashBits)]
    /\ cycles = {}
    /\ searches = 0
    /\ everFirst = None
    /\ cycFirst = None
    /\ cycLast = None
    /\ cntLast = None
    /\ calls = 0
    /\ args = NoArgs
    /\ ret = NoArgs
    /\ InitPatternFinder

\* The aggregation types and multiplicities the associations draw from.
AggTypes == {AggType.NONE, AggType.SHARED, AggType.COMPOSITED}
Multiplicities == {Multiplicity.ONE, Multiplicity.N, Multiplicity.STAR}

\* Parser._create_association: the one association of the document.
CreateAssociation ==
    /\ calls = 0
    /\ Cardinality(RelsOf(elements)) = Len(HierarchyEdges)
    /\ \E f \in WideIds, t \in WideIds, agg \in AggTypes,
          fm \in Multiplicities, tm \in Multiplicities :
          AddRelationship(Association(
              Cardinality(RelsOf(elements)) + 1, agg, f, t, fm, tm))
    /\ UNCHANGED <<hashOf, cycVars, pureVars, patVars>>

AssociationMatchers == {"BridgeMatcher", "CompositeMatcher", "DecoratorMatcher"}

\* BridgeMatcher, CompositeMatcher or DecoratorMatcher run on one class.
MatchAssociations == MatchOnce(AssociationMatchers)

NextHierarchy == CreateAssociation \/ MatchAssociations

SpecHierarchy == InitHierarchy /\ [][NextHierarchy]_vars

(***************************************************************************)
(* What the properties speak of, defined apart from the code.              *)
(***************************************************************************)
Distinct(s) == \A i, j \in 1..Len(s) : i # j => s[i] # s[j]

\* s shifted left by k places.
Rotate(s, k) == [i \in 1..Len(s) |-> s[((i - 1 + k) % Len(s)) + 1]]

IsRotation(s, t) ==
    /\ Len(s) = Len(t)
    /\ Len(s) = 0 \/ \E k \in 0..(Len(s) - 1) : t = Rotate(s, k)

Reverse(s) == [i \in 1..Len(s) |-> s[Len(s) + 1 - i]]

HasEdge(a, b) == \E r \in RelsOf(elements) : r.from_cls = a /\ r.to_cls = b

\* c is a closed walk of the relationship graph.
Closed(c) == \A i \in 1..Len(c) : HasEdge(c[i], c[(i % Len(c)) + 1])

SameUpToRotation(S, T) ==
    /\ \A c \in S : \E d \in T : IsRotation(c, d)
    /\ \A d \in T : \E c \in S : IsRotation(c, d)

Occurrences(s, x) == Cardinality({i \in 1..Len(s) : s[i] = x})

\* Two patterns of the same kind with the same field values.
SameValue(p, q) ==
    /\ p.name = q.name
    /\ [p EXCEPT !.oid = 0] = [q EXCEPT !.oid = 0]

\* What the patterns() calls since construction have yielded.
Yields ==
    (IF patFirst = None THEN {} ELSE {patFirst[1]})
        \cup (IF patAgain = None THEN {} ELSE {patAgain[1]})

Returned == cycles \cup (IF cycLast = None THEN {} ELSE cycLast[1])

\* C1: every cycle the finder holds or has returned is non-empty, has
\* pairwise distinct classes, and each class has a relationship to the next
\* one, the last to the first.
C1_CyclesAreGenuine ==
    \A c \in Returned : Len(c) >= 1 /\ Distinct(c) /\ Closed(c)

\* cycles() has returned a cycle through three classes.
C1_Witness == cycLast # None /\ \E c \in cycLast[1] : Len(c) = 3

SimpleCycles ==
    {c \in DistinctSeqs(ClassesOf(elements), MaxClasses) : Len(c) >= 1 /\ Closed(c)}

\* C2: the first query on a diagram returns, for every simple directed
\* cycle of the relationship graph, a cycle that is a rotation of it.
C2_AllSimpleCyclesFound ==
    (calls = 1 /\ cycLast # None) =>
        \A s \in SimpleCycles : \E c \in cycLast[1] : IsRotation(c, s)

\* C3: on cycles over distinct classes, Cycle.__eq__ is true exactly of two
\* cycles of one length of which one is a cyclic shift of the other; it is
\* reflexive, symmetric and transitive, and a cycle of three or more
\* classes differs from its reversal.
C3_EqIsRotationEquality ==
    (args # NoArgs /\ args[1] = "eq" /\ ret # None) =>
        /\ ret[1].ab = IsRotation(args[2], args[3])
        /\ ret[1].aa
        /\ ret[1].ab = ret[1].ba
        /\ (ret[1].ab /\ ret[1].bc) => ret[1].ac
        /\ (Len(args[2]) >= 3 /\ args[3] = Reverse(args[2])) => ~ret[1].ab

\* Two different lists that are shifts of each other have been compared,
\* and so have a cycle of three classes and its reversal.
C3_Witness ==
    /\ args # NoArgs /\ args[1] = "eq" /\ ret # None
    /\ Len(args[2]) = 3
    /\ args[3] = Rotate(args[2], 1)
    /\ args[4] = Reverse(args[2])
    /\ ret[1].ab /\ ~ret[1].ac

\* C4: no two members of the cycle set are rotations of each other; every
\* rotation of a member has the member's hash, and adding it to the set
\* leaves the set as it was.
C4_ClosedUnderRotation ==
    /\ \A c, d \in cycles : c # d => ~IsRotation(c, d)
    /\ \A c \in cycles : \A k \in 0..(Len(c) - 1) :
          /\ CycleHash(Rotate(c, k)) = CycleHash(c)
          /\ SetAdd(cycles, Rotate(c, k)) = cycles

\* The set holds a cycle of three classes, which three roots have found,
\* each from its own starting point.
C4_Witness == \E c \in cycles : Len(c) = 3 /\ Rotate(c, 1) \notin cycles

\* C5: while the diagram is not modified, every result of cycles() is the
\* first result up to rotation, and cycle_count() is the number of cycles
\* that cycles() yields.
C5_RequeryYieldsSame ==
    /\ (cycFirst # None /\ cycLast # None) =>
          SameUpToRotation(cycFirst[1], cycLast[1])
    /\ (cntLast # None /\ cycLast # None) =>
          cntLast[1] = Cardinality(cycLast[1])

\* cycles() has answered twice, the second time from the set it held.
C5_Witness ==
    /\ calls = 2
    /\ searches = 1
    /\ cntLast = None
    /\ cycLast # None
    /\ cycLast[1] # {}

\* C6: once the first query has completed, the search never runs again
\* and the finder holds the set the first query computed.
C6_FirstObservationLatches ==
    everFirst # None => (searches <= 1 /\ cycles = everFirst[1])

\* C7: the first patterns() query does the matching and a later query on
\* the unmodified diagram yields the same multiset of patterns: no query
\* raises, the two yields hold every pattern the same number of times, and
\* the later query leaves the class-to-patterns index exactly as the first
\* one left it.
C7_RequeryYieldsSamePatterns ==
    patAgain # None =>
        /\ ~patRaised
        /\ \A p \in Range(patFirst[1]) \cup Range(patAgain[1]) :
              Occurrences(patFirst[1], p) = Occurrences(patAgain[1], p)
        /\ patterns = idxFirst[1]

\* C8: an unfiltered patterns() query completes and yields every pattern
\* the matcher produced, and no two of the patterns it yields have the same
\* kind and the same field values.
C8_EachPatternYieldedOnce ==
    \A y \in Yields :
        /\ ~patRaised
        /\ \A i \in 1..Len(matched) :
              \E j \in 1..Len(y) : SameValue(matched[i], y[j])
        /\ \A i, j \in 1..Len(y) : i # j => ~SameValue(y[i], y[j])

\* C10: is_creational is true exactly of a Dependency that has a stereotype
\* named "create" or "instantiate".
C10_CreationalIffNamedStereotype ==
    (args # NoArgs /\ args[1] = "is_creational" /\ ret # None) =>
        ret[1] = (/\ args[2].rel_type = "Dependency"
                  /\ \E i \in 1..Len(args[2].stereotypes) :
                        args[2].stereotypes[i] \in {"create", "instantiate"})

\* C9: every relationship added to the diagram is in the incidence set of
\* its from_cls and of its to_cls, and relationships() of either endpoint
\* yields it, once.
C9_IndexedUnderBothEndpoints ==
    \A r \in RelsOf(elements) : \A c \in {r.from_cls, r.to_cls} :
        /\ r \in relationships[c]
        /\ \A ord \in Orders :
              Occurrences(Relationships(c, {}, "ANY", ord), r) = 1

\* The diagram holds a self-loop and a relationship between two classes.
C9_Witness ==
    /\ \E r \in RelsOf(elements) : r.from_cls = r.to_cls
    /\ \E r \in RelsOf(elements) : r.from_cls # r.to_cls

\* The classes c that the edges of one kind join to cls: the from_cls of the
\* edges whose to_cls is cls (side = "from"), or the to_cls of the edges
\* whose from_cls is cls (side = "to").  Holds for a sequence cs when every
\* class occurs in cs once for each such edge.
YieldsEnds(cs, kind, cls, side) ==
    \A c \in ClassIds :
        Occurrences(cs, c) =
            Cardinality({r \in RelsOf(elements) :
                /\ r.rel_type = kind
                /\ IF side = "from" THEN r.to_cls = cls /\ r.from_cls = c
                   ELSE r.from_cls = cls /\ r.to_cls = c})

\* C11: with Generalization running from subclass to superclass and
\* Realization from realizing class to interface, sub_classes(c) yields the
\* from_cls of the Generalization edges into c, super_classes(c) the to_cls
\* of those out of c, realizations(i) of an interface i the from_cls of the
\* Realization edges into i, and interfaces(c) the to_cls of those out of c.
C11_HierarchyQueriesFollowOrientation ==
    \A c \in ClassesOf(elements) : \A ord \in Orders :
        /\ YieldsEnds(SubClasses(c, ord), "Generalization", c, "from")
        /\ YieldsEnds(SuperClasses(c, ord), "Generalization", c, "to")
        /\ IsInterface(c) =>
              YieldsEnds(Realizations(c, ord), "Realization", c, "from")
        /\ YieldsEnds(Interfaces(c, ord), "Realization", c, "to")

\* C12: in every pattern a matcher emits, the classes held in its fields,
\* single roles and members of list roles together, are pairwise distinct.
C12_RolesAreDistinct ==
    ret # None =>
        \A i \in 1..Len(ret[1].out) :
            Distinct(InvolvedClasses(ret[1].out[i]))

\* Scenario S1: interface I = 1 realized by A = 2 and B = 3 (Realization runs
\* from the realizing class to the interface), one dependency from A to B
\* without stereotype, and nothing else.
S1Diagram ==
    /\ Len(classes) = 3
    /\ IsInterface(1) /\ ~IsInterface(2) /\ ~IsInterface(3)
    /\ {<<r.rel_type, r.from_cls, r.to_cls>> : r \in RelsOf(elements)}
           = {<<"Realization", 2, 1>>, <<"Realization", 3, 1>>,
              <<"Dependency", 2, 3>>}
    /\ Cardinality(RelsOf(elements)) = 3

\* C13: on the diagram of scenario S1 the pattern finder driven by the
\* multi-matcher of all matchers completes and yields exactly one pattern,
\* Adapter(target=I, adapter=A, adaptee=B).
C13_ScenarioS1 ==
    S1Diagram =>
        \A y \in Yields :
            /\ ~patRaised
            /\ Len(y) = 1
            /\ SameValue(y[1], Adapter(0, 1, 2, 3))

\* C14: on a diagram whose relationships all join known classes and are
\* indexed under both endpoints, running every matcher on a class raises no
\* exception.
C14_NoErrorRaised == ret # None => ~ret[1].raised

\* A class that no relationship of the diagram enters or leaves.
Isolated(c) ==
    \A r \in RelsOf(elements) : r.from_cls # c /\ r.to_cls # c

\* C15: a class with no incoming and no outgoing relationship has
\* inheritance depth 0 and is in no cycle the cycle finder holds or returns.
C15_IsolatedClass ==
    \A c \in ClassesOf(elements) :
        Isolated(c) =>
            /\ \A ord \in Orders :
                  InheritanceDepth(c, ord) = [raised |-> FALSE, depth |-> 0]
            /\ \A cyc \in Returned : c \notin Range(cyc)

\* An isolated class beside classes that form a returned cycle.
C15_Witness ==
    /\ \E c \in ClassesOf(elements) : Isolated(c)
    /\ cycLast # None
    /\ cycLast[1] # {}

\* C16: RatioMetric.value is 0.0 when the numerator is 0, or at most
\* epsilon, whatever the denominator; otherwise +infinity when the
\* denominator is 0, or at most epsilon; otherwise numerator / denominator.
C16_RatioSemantics ==
    (args # NoArgs /\ args[1] = "ratio" /\ ret # None) =>
        LET num == args[2]
            den == args[3]
            value == ret[1]
        IN /\ num = 0 => value = <<0, 1>>
           /\ num <= metric_eps => value = <<0, 1>>
           /\ (num > metric_eps /\ den <= metric_eps) => value = <<1, 0>>
           /\ (num > metric_eps /\ den > metric_eps) =>
                 value[2] # 0 /\ value[1] * den = num * value[2]

\* The ratio of a zero numerator to a zero denominator has been taken.
C16_Witness ==
    /\ args # NoArgs /\ args[1] = "ratio" /\ ret # None
    /\ args[2] = 0 /\ args[3] = 0

\* C17: a diagram with zero classes yields Classes = 0, every ratio metric
\* (ClassesInPatternRatio, AvgMethodsPerClass, AvgRelationshipsPerClass,
\* ClassesInCycleRatio, TechnicalDebtRatio) = 0.0, AvgInheritanceDepth = 0.0,
\* and an empty pattern set and cycle set.
ZeroClassMetricsRead ==
    /\ args # NoArgs /\ args[1] = "metrics"
    /\ ret # None
    /\ ret[1].op = "MetricAggregator.compute_metrics"
    /\ classes = <<>>

C17_ZeroClassesAllZero ==
    ZeroClassMetricsRead =>
        LET m == ret[1].values[1]
        IN /\ m.classes = Some(0)
           /\ m.classes_in_pattern_ratio = Some(<<0, 1>>)
           /\ m.avg_methods_per_class = Some(<<0, 1>>)
           /\ m.avg_relationships_per_class = Some(<<0, 1>>)
           /\ m.classes_in_cycle_ratio = Some(<<0, 1>>)
           /\ m.technical_debt_ratio = Some(<<0, 1>>)
           /\ m.avg_inheritance_depth = Some(<<0, 1>>)
           /\ ~patRaised
           /\ Patterns(patterns, None, None).yielded = <<>>
           /\ cycles = {}

\* C18: when the diagram holds a relationship from a class c to c itself,
\* the set the cycle finder returns contains the one-element cycle [c]:
\* every search of the finder over such a diagram, by cycles() or by
\* cycle_count(), leaves [c] in the cycle set.
SelfLoops == {r.from_cls : r \in {x \in RelsOf(elements) : x.from_cls = x.to_cls}}

C18_SelfLoopIsACycle ==
    [][(cycles = {} /\ calls' = calls + 1) =>
            \A c \in SelfLoops : <<c>> \in cycles']_vars

\* cycles() has answered for a diagram with a self-loop.
C18_Witness ==
    /\ cycLast # None
    /\ SelfLoops # {}
    /\ \E c \in SelfLoops : <<c>> \in cycLast[1]

\* C19: a relationship or association node whose From, To or
\* EndModelElement reference is missing or names no known class is skipped:
\* no element is registered and no incidence set changes, and the node
\* counts as read, so the build goes on with the nodes after it.
C19_DanglingNodeSkipped ==
    (ret # None /\ ret[1].dangling) =>
        /\ ~ret[1].added
        /\ elements = ret[1].before.elements
        /\ relationships = ret[1].before.relationships
        /\ ret[1].parsed = ret[1].skipped + Cardinality(RelsOf(elements))

\* A node has been skipped, and a later node of the document has been
\* added to the diagram.
C19_Witness ==
    /\ ret # None
    /\ ret[1].skipped > 0
    /\ ret[1].added
    /\ \E r \in RelsOf(elements) : r.id = 1

\* C20: the object encode_patterns builds maps each pattern name that
\* occurs to the list of all the patterns of that name, so that every
\* pattern of the input appears in it exactly once.
C20_GroupsLoseNoPattern ==
    (args # NoArgs /\ args[1] = "encode" /\ ret # None) =>
        LET ps == args[2]
            obj == ret[1]
            Places(p) == {<<j, k>> \in (1..Len(obj)) \X (1..Len(ps)) :
                            k <= Len(obj[j].val) /\ obj[j].val[k] = p}
        IN \A i \in 1..Len(ps) :
              /\ \E j \in 1..Len(obj) :
                    /\ obj[j].key = ps[i].name
                    /\ \E k \in 1..Len(obj[j].val) : obj[j].val[k] = ps[i]
              /\ Cardinality(Places(ps[i])) = 1

\* C28: patterns(cls=c) yields exactly the detected patterns whose involved
\* classes include c, each once, and for a class of the diagram involved in
\* no pattern it yields nothing and raises no error.
C28_FocalClassFilter ==
    ret # None =>
        LET c == ret[1].cls
            y == ret[1].yielded
            all == Patterns(patterns, None, None).yielded
        IN /\ ~ret[1].attribute_error
           /\ ~ret[1].key_error
           /\ \A i \in 1..Len(all) :
                 Occurrences(y, all[i]) =
                     IF c \in Range(InvolvedClasses(all[i])) THEN 1 ELSE 0
           /\ \A j \in 1..Len(y) : \E i \in 1..Len(all) : y[j] = all[i]

\* C27: the breadth-first search from any root terminates; within one
\* search the children of a class are put on the fringe at most once, and
\* every solution ends at the goal, the finished search returning what
\* Node.search returns, where the goal can be recorded more than once.
SearchDone == ret # None /\ ret[1].fringe = <<>>

C27_SearchTerminates ==
    /\ [](ret # None =>
            /\ Distinct(ret[1].expanded)
            /\ Range(ret[1].expanded) = ret[1].closed
            /\ \A i \in 1..Len(ret[1].solutions) :
                  NodeCls(ret[1].solutions[i]) = ret[1].goal)
    /\ [](SearchDone =>
            ret[1].solutions = Search(ret[1].goal, ret[1].goal, ret[1].ord))
    /\ ((ret # None) ~> SearchDone)

\* A search over a diagram with a self-loop and parallel edges has ended
\* with the goal recorded more than once beyond the root itself.
C27_Witness ==
    /\ SearchDone
    /\ Len(ret[1].solutions) > 2
    /\ \E r \in RelsOf(elements) : r.from_cls = r.to_cls
    /\ \E r, q \in RelsOf(elements) :
          r # q /\ r.from_cls = q.from_cls /\ r.to_cls = q.to_cls

\* C29: the cycles found are a function of the diagram alone: the set the
\* first query returns is, up to rotation, the set the search finds under
\* every order in which the relationships leaving a class can be
\* enumerated.
C29_CyclesIndependentOfOrder ==
    (calls = 1 /\ cycLast # None) =>
        \A ord \in WideOrders :
            SameUpToRotation(cycLast[1], FindCycles({}, ord))

\* C30: every class on a directed cycle of the relationship graph is in a
\* returned cycle, so ClassesInCycle is the number of classes on a directed
\* cycle, never more than Classes, and DependencyCycles is 0 exactly when
\* the graph has no directed cycle.
OnCycle == UNION {Range(s) : s \in SimpleCycles}

C30_CycleMetricsCountCycleClasses ==
    /\ (calls = 1 /\ cycLast # None) =>
          /\ \A c \in OnCycle : \E cyc \in cycLast[1] : c \in Range(cyc)
          /\ ClassesInCycleValue(cycLast[1]) = Cardinality(OnCycle)
          /\ ClassesInCycleValue(cycLast[1]) <= ClassesValue
    /\ (calls = 1 /\ cntLast # None) =>
          (DependencyCyclesValue(cycles) = cntLast[1]
              /\ (cntLast[1] = 0 <=> OnCycle = {}))

\* cycles() has answered for a diagram in which some classes lie on a
\* directed cycle and another does not.
C30_Witness ==
    /\ calls = 1
    /\ cycLast # None
    /\ Cardinality(OnCycle) > 1
    /\ ClassesOf(elements) \ OnCycle # {}

\* The associations of the diagram.
AssociationsOf(els) == {r \in RelsOf(els) : r.rel_type = "Association"}

\* The class a pattern takes from an association: the Bridge implementor,
\* the Composite composite, the Decorator decorator.
Supplied(p) ==
    IF p.name = "Bridge" THEN p.implementor
    ELSE IF p.name = "Composite" THEN p.composite
    ELSE p.decorator

\* The class the matcher was run on when it emitted p.
Anchor(p) == IF p.name = "Bridge" THEN p.abstraction ELSE p.component

\* C21: the Bridge, Composite and Decorator matchers use only associations
\* whose aggregation type is Shared or Composited: the class a pattern takes
\* from an association comes from one that is not of aggregation None, and
\* a diagram whose associations all have aggregation None yields none of
\* the three patterns.
C21_NoneAggregationSuppliesNothing ==
    (ret # None /\ ret[1].matcher \in AssociationMatchers) =>
        /\ \A i \in 1..Len(ret[1].out) :
              \E a \in AssociationsOf(elements) :
                  /\ a.aggregation_type \in {AggType.SHARED, AggType.COMPOSITED}
                  /\ {a.from_cls, a.to_cls}
                        = {Anchor(ret[1].out[i]), Supplied(ret[1].out[i])}
        /\ (\A a \in AssociationsOf(elements) :
                a.aggregation_type = AggType.NONE) => ret[1].out = <<>>

\* The hierarchy as the data model states it: a Generalization runs from the
\* subclass to the superclass, a Realization from the realizing class to the
\* interface.
SubclassesOf(c) ==
    {r.from_cls : r \in {x \in RelsOf(elements) :
                            x.rel_type = "Generalization" /\ x.to_cls = c}}

RealizersOf(c) ==
    {r.from_cls : r \in {x \in RelsOf(elements) :
                            x.rel_type = "Realization" /\ x.to_cls = c}}

LeafCandidates(c) == IF IsInterface(c) THEN RealizersOf(c) ELSE SubclassesOf(c)

\* The leaf candidates of c at the other end of an association, of one of
\* the aggregation types aggs, in which c plays the RHS role with from_mult
\* One and to_mult N, Star or Plus.
CompositesOf(c, aggs) ==
    {a.from_cls : a \in {x \in AssociationsOf(elements) :
        /\ x.to_cls = c
        /\ x.aggregation_type \in aggs
        /\ x.from_mult = Multiplicity.ONE
        /\ x.to_mult \in {Multiplicity.N, Multiplicity.STAR,
                          Multiplicity.PLUS}}} \cap LeafCandidates(c)

\* C24: run on a component c with at least two leaf candidates, the
\* Composite matcher emits Composite(k, c, leaves) for each leaf candidate k
\* at the other end of such an association, the leaves being the leaf
\* candidates that are no composite; no composite is among the leaves; and
\* with fewer than two leaf candidates it emits nothing.
C24_CompositeMatcher ==
    (ret # None /\ ret[1].matcher = "CompositeMatcher") =>
        LET c == ret[1].cls
            out == ret[1].out
        IN /\ Cardinality(LeafCandidates(c)) < 2 => out = <<>>
           /\ Cardinality(LeafCandidates(c)) >= 2 =>
                 \A k \in CompositesOf(c, {AggType.SHARED, AggType.COMPOSITED}) :
                    \E i \in 1..Len(out) :
                       /\ out[i].composite = k
                       /\ out[i].component = c
                       /\ Range(out[i].leaves)
                             = LeafCandidates(c) \ CompositesOf(c, AggTypes)
           /\ \A i \in 1..Len(out) :
                 out[i].composite \notin Range(out[i].leaves)

\* The Dependency relationships that leave c.
DependenciesFrom(c) ==
    {r \in RelsOf(elements) : r.rel_type = "Dependency" /\ r.from_cls = c}

\* How many members of the list s are x.
Count(s, x) == Cardinality({i \in 1..Len(s) : s[i] = x})

\* C25: run on a class c, interface or not, the Facade matcher emits exactly
\* one Facade(c, deps) when more than two Dependency relationships leave c,
\* deps holding the target of each of them, and nothing when two or fewer do.
C25_FacadeMatcher ==
    (ret # None /\ ret[1].matcher = "FacadeMatcher") =>
        LET c == ret[1].cls
            out == ret[1].out
        IN IF Cardinality(DependenciesFrom(c)) > 2
           THEN /\ Len(out) = 1
                /\ out[1].name = "Facade"
                /\ out[1].facade = c
                /\ \A t \in ClassesOf(elements) :
                      Count(out[1].classes, t)
                         = Cardinality({r \in DependenciesFrom(c) :
                                           r.to_cls = t})
           ELSE out = <<>>

\* The matcher has run on a class that three dependencies leave, and on one
\* that two leave.
C25_Witness ==
    /\ ret # None
    /\ ret[1].matcher = "FacadeMatcher"
    /\ Cardinality(DependenciesFrom(ret[1].cls)) = 3
    /\ Len(ret[1].out) = 1
    /\ Cardinality(Range(ret[1].out[1].classes)) > 1

\* The superclasses of a, as the data model states the orientation.
SuperclassesOf(a) ==
    {r.to_cls : r \in {x \in RelsOf(elements) :
                          x.rel_type = "Generalization" /\ x.from_cls = a}}

\* A dependency is creational when one of its stereotypes is named create or
\* instantiate.
Creational(r) ==
    \E i \in 1..Len(r.stereotypes) : r.stereotypes[i] \in CreationalNames

\* The targets of the non-creational dependencies of a, and its superclasses.
AdapteesOf(a) ==
    {r.to_cls : r \in {x \in DependenciesFrom(a) : ~Creational(x)}}
        \cup SuperclassesOf(a)

Emitted(out, p) == \E i \in 1..Len(out) : SameValue(out[i], p)

\* C22: run on an interface c, the Adapter matcher emits
\* Adapter(target=c, adapter=a, adaptee=x) for a realization a of c exactly
\* when the targets of a's non-creational dependencies and a's superclasses
\* are, together, the one class x and c, a, x are pairwise distinct; run on
\* a class that is no interface it emits nothing.
C22_AdapterMatcher ==
    (ret # None /\ ret[1].matcher = "AdapterMatcher") =>
        LET c == ret[1].cls
            out == ret[1].out
        IN IF ~IsInterface(c) THEN out = <<>>
           ELSE \A a \in RealizersOf(c), x \in ClassesOf(elements) :
                   Emitted(out, Adapter(0, c, a, x))
                      <=> (AdapteesOf(a) = {x}
                              /\ Cardinality({c, a, x}) = 3)

\* The classes joined to p by an association.
AssociatedTo(p) ==
    {OtherEnd(a, p) : a \in {x \in AssociationsOf(elements) :
                                x.from_cls = p \/ x.to_cls = p}}

DependencyTargets(p) == {r.to_cls : r \in DependenciesFrom(p)}

\* C23: run on a subject c whose candidates are its realizations if it is
\* an interface and its subclasses otherwise, the Proxy matcher emits
\* Proxy(p, c, r) exactly when there are at least two candidates, p is a
\* candidate without associated classes, r is the one dependency target of
\* p and a candidate itself, and p, c, r are pairwise distinct.
C23_ProxyMatcher ==
    (ret # None /\ ret[1].matcher = "ProxyMatcher") =>
        LET c == ret[1].cls
            out == ret[1].out
        IN \A p \in ClassesOf(elements), r \in ClassesOf(elements) :
              Emitted(out, Proxy(0, p, c, r))
                 <=> /\ Cardinality(LeafCandidates(c)) >= 2
                     /\ p \in LeafCandidates(c)
                     /\ AssociatedTo(p) = {}
                     /\ DependencyTargets(p) = {r}
                     /\ r \in LeafCandidates(c)
                     /\ Cardinality({p, c, r}) = 3

\* The interfaces c realizes, as the data model states the orientation.
InterfacesOf(c) ==
    {r.to_cls : r \in {x \in RelsOf(elements) :
                          x.rel_type = "Realization" /\ x.from_cls = c}}

\* How many times the method m is among the methods of c: those c declares
\* and, transitively, those of the interfaces it realizes and of its
\* superclasses, once for every relationship that leads to them.
RECURSIVE MethodCount(_, _, _)
MethodCount(c, m, depth) ==
    IF depth > Len(classes) THEN 0
    ELSE LET up == {r \in RelsOf(elements) :
                       /\ r.rel_type \in {"Realization", "Generalization"}
                       /\ r.from_cls = c}
             RECURSIVE Sum(_)
             Sum(rs) == IF rs = {} THEN 0
                        ELSE LET r == CHOOSE x \in rs : TRUE
                             IN MethodCount(r.to_cls, m, depth + 1)
                                   + Sum(rs \ {r})
         IN Count(ClassMethods(c), m) + Sum(up)

\* The creational dependency targets of c that are no interface.
CreatedBy(c) ==
    {r.to_cls : r \in {x \in DependenciesFrom(c) :
                          Creational(x) /\ ~IsInterface(x.to_cls)}}

\* The products the factory method m of c may have: its return type, unless
\* that is an interface some created class realizes, and then such a class.
ProductsOf(c, m) ==
    LET t == m.return_type[1]
        realizing == {x \in CreatedBy(c) : t \in InterfacesOf(x)}
    IN IF IsInterface(t) /\ realizing # {} THEN realizing ELSE {t}

\* C26: run on a class c, the Factory Method matcher emits exactly one
\* FactoryMethod(c, m, product) for each method m of c whose return type is
\* a class and whose name starts with a factory prefix; the product is the
\* return type, unless that is an interface realized by a creational
\* dependency target of c that is no interface, and then it is that target.
C26_FactoryMethodMatcher ==
    (ret # None /\ ret[1].matcher = "FactoryMethodMatcher"
        /\ ~ret[1].raised) =>
        LET c == ret[1].cls
            out == ret[1].out
            Emits(m) == {i \in 1..Len(out) : out[i].method = m}
        IN /\ \A i \in 1..Len(out) :
                 /\ out[i].factory = c
                 /\ IsFactoryMethod(out[i].method)
                 /\ out[i].product \in ProductsOf(c, out[i].method)
           /\ \A e \in Range(elements) :
                 e.kind = "Class" =>
                    \A i \in 1..Len(ClassMethods(e.id)) :
                       IsFactoryMethod(ClassMethods(e.id)[i]) =>
                          Cardinality(Emits(ClassMethods(e.id)[i]))
                             = MethodCount(c, ClassMethods(e.id)[i], 0)

====
